---- MODULE Spec2Model ----
(***************************************************************************)
(* A model of the hosby CLI's schema store and sync engine: the schema     *)
(* document, its content hash, the schema sanitizer/filter, and the        *)
(* push / pull / scan / project-configuration operations on the local      *)
(* schema file and the two sync-state files.                               *)
(*                                                                         *)
(* Text is a sequence of one-character strings; charCodeAt gives the       *)
(* UTF-16 code unit of each.  An optional value (a missing file, an absent *)
(* object key) is a sequence of length zero or one.                        *)
(***************************************************************************)
EXTENDS Integers, Sequences, FiniteSets, TLC

\* ------------------------------------------------------------------ text

\* The letters, in code-unit order: "a" is 97 and "A" is 65.
LowerCase ==
  <<"a", "b", "c", "d", "e", "f", "g", "h", "i", "j", "k", "l", "m",
    "n", "o", "p", "q", "r", "s", "t", "u", "v", "w", "x", "y", "z">>

UpperCase ==
  <<"A", "B", "C", "D", "E", "F", "G", "H", "I", "J", "K", "L", "M",
    "N", "O", "P", "Q", "R", "S", "T", "U", "V", "W", "X", "Y", "Z">>

Digits == <<"0", "1", "2", "3", "4", "5", "6", "7", "8", "9">>

IndexOf(seq, c) == CHOOSE i \in 1..Len(seq) : seq[i] = c

InSeq(seq, c) == \E i \in 1..Len(seq) : seq[i] = c

\* String.prototype.charCodeAt for the characters the model's documents use.
charCodeAt ==
  [c \in {LowerCase[i] : i \in 1..26} \cup {UpperCase[i] : i \in 1..26}
         \cup {Digits[i] : i \in 1..10}
         \cup {"\"", ",", ".", ":", "[", "]", "{", "}"} |->
     IF InSeq(LowerCase, c) THEN 96 + IndexOf(LowerCase, c)
     ELSE IF InSeq(UpperCase, c) THEN 64 + IndexOf(UpperCase, c)
     ELSE IF InSeq(Digits, c) THEN 47 + IndexOf(Digits, c)
     ELSE CASE c = "\"" -> 34 [] c = "," -> 44 [] c = "." -> 46
            [] c = ":" -> 58 [] c = "[" -> 91 [] c = "]" -> 93
            [] c = "{" -> 123 [] c = "}" -> 125]

\* String.prototype.toLowerCase
toLowerCase(s) ==
  [i \in 1..Len(s) |->
     IF InSeq(UpperCase, s[i]) THEN LowerCase[IndexOf(UpperCase, s[i])]
     ELSE s[i]]

\* String.prototype.startsWith, endsWith and includes
startsWith(s, p) == Len(p) <= Len(s) /\ SubSeq(s, 1, Len(p)) = p

endsWith(s, p) ==
  Len(p) <= Len(s) /\ SubSeq(s, Len(s) - Len(p) + 1, Len(s)) = p

includes(s, p) ==
  \E i \in 0..(Len(s) - Len(p)) : SubSeq(s, i + 1, i + Len(p)) = p

\* The order Array.prototype.sort gives keys: by code unit, a prefix first.
RECURSIVE StrLe(_, _)
StrLe(a, b) ==
  IF a = <<>> THEN TRUE
  ELSE IF b = <<>> THEN FALSE
  ELSE IF charCodeAt[Head(a)] < charCodeAt[Head(b)] THEN TRUE
  ELSE IF charCodeAt[Head(a)] > charCodeAt[Head(b)] THEN FALSE
  ELSE StrLe(Tail(a), Tail(b))

\* Object.keys(value).sort()
RECURSIVE SortKeys(_)
SortKeys(S) ==
  IF S = {} THEN <<>>
  ELSE LET m == CHOOSE x \in S : \A y \in S : StrLe(x, y)
       IN  <<m>> \o SortKeys(S \ {m})

\* JSON.stringify of a string without characters that need escaping.
JsonString(s) == <<"\"">> \o s \o <<"\"">>

\* JSON.stringify of an object whose keys come in the order keys and whose
\* values are already serialised: {"k1":v1,"k2":v2}
RECURSIVE JsonMembers(_, _)
JsonMembers(keys, val) ==
  IF keys = <<>> THEN <<>>
  ELSE JsonString(Head(keys)) \o <<":">> \o val[Head(keys)]
       \o (IF Len(keys) > 1 THEN <<",">> ELSE <<>>)
       \o JsonMembers(Tail(keys), val)

\* The replacer of getSchemaHash: every object is rebuilt with sorted keys.
StableObject(val) ==
  <<"{">> \o JsonMembers(SortKeys(DOMAIN val), val) \o <<"}">>

\* ------------------------------------------------------- schema document

\* An optional value: absent, or present with value v.
None == <<>>

Some(v) == <<v>>

\* A column whose JSON value is the string s.
StrCol(s) == [kind |-> "string", text |-> s]

\* HosbySchema / SchemaData: tables (table name -> column name -> column),
\* an optional metadata object holding an optional project {id, name}, and an
\* optional version string.
Schema(t, m, v) == [tables |-> t, metadata |-> m, version |-> v]

Project(id, name) == [id |-> id, name |-> name]

Metadata(p) == [project |-> p]

\* JSON.stringify of a column value.
JsonColumn(c) ==
  CASE c.kind = "string" -> JsonString(c.text)
    [] c.kind = "number" -> c.text
    [] c.kind = "boolean" -> c.text
    [] c.kind = "null" -> <<"n", "u", "l", "l">>
    [] c.kind = "array" -> <<"[", "]">>
    [] c.kind = "objectNoType" -> <<"{", "}">>
    [] c.kind = "object" ->
         <<"{">> \o JsonString(<<"t", "y", "p", "e">>) \o <<":">>
                \o JsonString(c.text) \o <<"}">>

\* The stable JSON of a table: columns under sorted names.
StableTable(tbl) == StableObject([c \in DOMAIN tbl |-> JsonColumn(tbl[c])])

StableTables(t) == StableObject([n \in DOMAIN t |-> StableTable(t[n])])

StableProject(p) ==
  StableObject([k \in {<<"i", "d">>, <<"n", "a", "m", "e">>} |->
                  IF k = <<"i", "d">> THEN JsonString(p.id)
                  ELSE JsonString(p.name)])

StableMetadata(m) ==
  StableObject([k \in (IF m.project = None THEN {}
                        ELSE {<<"p", "r", "o", "j", "e", "c", "t">>})
                  |-> StableProject(m.project[1])])

\* JSON.stringify(schema, replacer) of getSchemaHash: absent keys are left
\* out, the present ones come in sorted order at every depth.
StableJson(d) ==
  LET kTables == <<"t", "a", "b", "l", "e", "s">>
      kMeta == <<"m", "e", "t", "a", "d", "a", "t", "a">>
      kVersion == <<"v", "e", "r", "s", "i", "o", "n">>
      keys == {kTables} \cup (IF d.metadata = None THEN {} ELSE {kMeta})
                        \cup (IF d.version = None THEN {} ELSE {kVersion})
  IN  StableObject([k \in keys |->
        IF k = kTables THEN StableTables(d.tables)
        ELSE IF k = kMeta THEN StableMetadata(d.metadata[1])
        ELSE JsonString(d.version[1])])

\* One step of the rolling hash, hash = ((hash << 5) + hash) + code, on the
\* 32-bit value held as two 16-bit halves <<high, low>>: the shift and the
\* final mask take the value modulo 2^32.
HashStep(h, code) ==
  LET low == h[2] * 33 + code
  IN  <<(h[1] * 33 + (low \div 65536)) % 65536, low % 65536>>

\* The loop of getSchemaHash, iterations i = from .. to (1-based) started
\* with hash h: the first half of the iterations, then the second half, the
\* value in between being a 32-bit one.
RECURSIVE RollingHash(_, _, _, _)
RollingHash(h, text, from, to) ==
  IF from > to THEN h
  ELSE IF from = to THEN HashStep(h, charCodeAt[text[from]])
  ELSE LET mid == (from + to) \div 2
           first == RollingHash(h, text, from, mid)
       IN  IF first[1] \in 0..65535 /\ first[2] \in 0..65535
           THEN RollingHash(first, text, mid + 1, to)
           ELSE first

\* hash & 0x7FFFFFFF of the loop's result, the hash seeded with 5381.
MaskedHash(text) ==
  LET h == RollingHash(<<0, 5381>>, text, 1, Len(text))
  IN  (h[1] % 32768) * 65536 + h[2]

\* Number.prototype.toString(36)
RECURSIVE Base36(_)
Base36(n) ==
  LET digit == IF n % 36 < 10 THEN Digits[(n % 36) + 1]
               ELSE LowerCase[(n % 36) - 9]
  IN  IF n < 36 THEN <<digit>> ELSE Base36(n \div 36) \o <<digit>>

getSchemaHash(d) == Base36(MaskedHash(StableJson(d)))

\* ------------------------------------------------------ sanitize, filter

\* The literal texts the sanitizer and the filter compare with.
TypeString == <<"s", "t", "r", "i", "n", "g">>

TypeArray == <<"a", "r", "r", "a", "y">>

DefaultVersion == <<"1", ".", "0", ".", "0">>

VALID_COLUMN_TYPES ==
  {TypeString, <<"n", "u", "m", "b", "e", "r">>,
   <<"b", "o", "o", "l", "e", "a", "n">>, <<"d", "a", "t", "e">>, TypeArray,
   <<"o", "b", "j", "e", "c", "t">>, <<"e", "n", "u", "m">>}

\* The string branch of sanitizeSchema: an enum marker or a vocabulary type,
\* alone or followed by ":" or "[", is kept as written.
isValidType(columnDef) ==
  LET lowerVal == toLowerCase(columnDef)
  IN  \/ startsWith(lowerVal, <<"e", "n", "u", "m", "[">>)
      \/ startsWith(lowerVal, <<"e", "n", "u", "m", ":", "[">>)
      \/ \E type \in VALID_COLUMN_TYPES :
           \/ lowerVal = type
           \/ startsWith(lowerVal, type \o <<":">>)
           \/ startsWith(lowerVal, type \o <<"[">>)

\* One column of sanitizeSchema.  An array is an object that is not null, so
\* it takes the descriptor branch, where it carries no string `type`.
sanitizeColumn(c) ==
  IF c.kind \in {"object", "objectNoType", "array"}
  THEN IF c.kind = "object" /\ c.text \in VALID_COLUMN_TYPES THEN c
       ELSE [kind |-> "object", text |-> TypeString]
  ELSE IF c.kind = "string"
  THEN IF isValidType(c.text) THEN c ELSE StrCol(TypeString)
  ELSE StrCol(IF c.kind = "null" THEN <<"n", "u", "l", "l">> ELSE c.text)

\* sanitizeSchema.  A document without `tables` (a record without that
\* field) is given an empty one.
sanitizeSchema(schema) ==
  IF "tables" \notin DOMAIN schema
  THEN Schema(<<>>, schema.metadata, schema.version)
  ELSE [schema EXCEPT !.tables =
          [t \in DOMAIN schema.tables |->
             [c \in DOMAIN schema.tables[t] |->
                sanitizeColumn(schema.tables[t][c])]]]

IGNORED_COMPONENTS ==
  {<<"b", "u", "t", "t", "o", "n", "p", "r", "o", "p", "s">>,
   <<"b", "u", "t", "t", "o", "n", "p", "r", "o", "p", "s", "s">>,
   <<"b", "a", "d", "g", "e", "p", "r", "o", "p", "s">>,
   <<"b", "a", "d", "g", "e", "p", "r", "o", "p", "s", "s">>,
   <<"s", "h", "e", "e", "t", "c", "o", "n", "t", "e", "n", "t", "p", "r", "o", "p", "s">>,
   <<"s", "h", "e", "e", "t", "c", "o", "n", "t", "e", "n", "t", "p", "r", "o", "p", "s", "s">>,
   <<"s", "h", "e", "e", "t", "p", "r", "o", "p", "s">>,
   <<"s", "h", "e", "e", "t", "p", "r", "o", "p", "s", "s">>,
   <<"t", "o", "o", "l", "t", "i", "p", "p", "r", "o", "p", "s">>,
   <<"t", "o", "o", "l", "t", "i", "p", "p", "r", "o", "p", "s", "s">>,
   <<"t", "o", "a", "s", "t", "p", "r", "o", "p", "s">>,
   <<"t", "o", "a", "s", "t", "p", "r", "o", "p", "s", "s">>,
   <<"m", "o", "d", "a", "l", "p", "r", "o", "p", "s">>,
   <<"m", "o", "d", "a", "l", "p", "r", "o", "p", "s", "s">>,
   <<"c", "o", "l", "u", "m", "n", "m", "o", "d", "a", "l", "p", "r", "o", "p", "s">>,
   <<"c", "o", "l", "u", "m", "n", "m", "o", "d", "a", "l", "p", "r", "o", "p", "s", "s">>,
   <<"d", "r", "o", "p", "p", "a", "b", "l", "e", "c", "o", "l", "u", "m", "n", "p", "r", "o", "p", "s">>,
   <<"d", "r", "o", "p", "p", "a", "b", "l", "e", "c", "o", "l", "u", "m", "n", "p", "r", "o", "p", "s", "s">>,
   <<"t", "a", "s", "k", "c", "a", "r", "d", "p", "r", "o", "p", "s">>,
   <<"t", "a", "s", "k", "c", "a", "r", "d", "p", "r", "o", "p", "s", "s">>,
   <<"t", "a", "s", "k", "m", "o", "d", "a", "l", "p", "r", "o", "p", "s">>,
   <<"t", "a", "s", "k", "m", "o", "d", "a", "l", "p", "r", "o", "p", "s", "s">>,
   <<"c", "a", "l", "e", "n", "d", "a", "r">>,
   <<"c", "a", "l", "e", "n", "d", "a", "r", "s">>,
   <<"c", "o", "m", "m", "a", "n", "d">>,
   <<"c", "o", "m", "m", "a", "n", "d", "s">>,
   <<"d", "i", "a", "l", "o", "g">>, <<"d", "i", "a", "l", "o", "g", "s">>,
   <<"a", "l", "e", "r", "t">>, <<"a", "l", "e", "r", "t", "s">>,
   <<"a", "l", "e", "r", "t", "d", "i", "a", "l", "o", "g">>,
   <<"a", "l", "e", "r", "t", "d", "i", "a", "l", "o", "g", "s">>,
   <<"a", "c", "c", "o", "r", "d", "i", "o", "n">>,
   <<"a", "c", "c", "o", "r", "d", "i", "o", "n", "s">>,
   <<"t", "o", "o", "l", "t", "i", "p">>,
   <<"t", "o", "o", "l", "t", "i", "p", "s">>, <<"t", "o", "a", "s", "t">>,
   <<"t", "o", "a", "s", "t", "s">>, <<"s", "t", "a", "t", "e">>,
   <<"s", "t", "a", "t", "e", "s">>}

\* No entry of IGNORED_COMPONENTS holds a "*", so every entry is compared
\* as a whole with the lowercased table name.
isIgnoredByPattern(tableLower) ==
  \E pattern \in IGNORED_COMPONENTS : tableLower = toLowerCase(pattern)

uiPatterns ==
  {<<"p", "r", "o", "p", "s">>, <<"s", "t", "a", "t", "e">>,
   <<"c", "o", "n", "f", "i", "g">>, <<"o", "p", "t", "i", "o", "n", "s">>,
   <<"c", "o", "n", "t", "e", "x", "t">>, <<"b", "u", "t", "t", "o", "n">>,
   <<"m", "o", "d", "a", "l">>, <<"d", "i", "a", "l", "o", "g">>,
   <<"c", "a", "r", "d">>, <<"p", "a", "n", "e", "l">>,
   <<"m", "e", "n", "u">>, <<"n", "a", "v">>, <<"f", "o", "r", "m">>,
   <<"i", "n", "p", "u", "t">>, <<"s", "e", "l", "e", "c", "t">>,
   <<"c", "h", "e", "c", "k", "b", "o", "x">>, <<"r", "a", "d", "i", "o">>,
   <<"s", "w", "i", "t", "c", "h">>,
   <<"d", "r", "o", "p", "d", "o", "w", "n">>,
   <<"t", "o", "o", "l", "t", "i", "p">>,
   <<"p", "o", "p", "o", "v", "e", "r">>, <<"t", "o", "a", "s", "t">>,
   <<"n", "o", "t", "i", "f", "i", "c", "a", "t", "i", "o", "n">>,
   <<"s", "p", "i", "n", "n", "e", "r">>, <<"l", "o", "a", "d", "e", "r">>,
   <<"p", "r", "o", "g", "r", "e", "s", "s">>,
   <<"s", "k", "e", "l", "e", "t", "o", "n">>, <<"i", "c", "o", "n">>,
   <<"a", "v", "a", "t", "a", "r">>, <<"b", "a", "d", "g", "e">>,
   <<"t", "a", "g">>, <<"l", "a", "b", "e", "l">>, <<"t", "a", "b">>,
   <<"a", "c", "c", "o", "r", "d", "i", "o", "n">>,
   <<"s", "l", "i", "d", "e", "r">>,
   <<"p", "a", "g", "i", "n", "a", "t", "i", "o", "n">>,
   <<"b", "r", "e", "a", "d", "c", "r", "u", "m", "b">>,
   <<"s", "t", "e", "p", "p", "e", "r">>,
   <<"t", "i", "m", "e", "l", "i", "n", "e">>,
   <<"c", "o", "m", "p", "o", "n", "e", "n", "t">>,
   <<"e", "l", "e", "m", "e", "n", "t">>, <<"w", "i", "d", "g", "e", "t">>,
   <<"v", "i", "e", "w">>, <<"c", "o", "n", "t", "r", "o", "l">>,
   <<"r", "e", "n", "d", "e", "r", "e", "r">>}

isUIComponentTable(tableName) ==
  \/ \E pattern \in uiPatterns :
       endsWith(tableName, pattern) \/ endsWith(tableName, pattern \o <<"s">>)
  \/ includes(tableName, <<"u", "i">>)
  \/ includes(tableName, <<"l", "a", "y", "o", "u", "t">>)
  \/ includes(tableName, <<"s", "t", "y", "l", "e">>)
  \/ includes(tableName, <<"t", "h", "e", "m", "e">>)
  \/ includes(tableName, <<"d", "i", "s", "p", "l", "a", "y">>)

\* keepsTable comparing the name as written, not lowercased.
keepsTable_CaseSensitive(table, columns) ==
  /\ DOMAIN columns # {}
  /\ ~isIgnoredByPattern(table)
  /\ ~isUIComponentTable(table)

\* The test of filterSchema's loop: the table is copied to the output.
keepsTable(table, columns) ==
  LET tableLower == toLowerCase(table)
  IN  /\ DOMAIN columns # {}
      /\ ~isIgnoredByPattern(tableLower)
      /\ ~isUIComponentTable(tableLower)

\* filterSchema starting its output from tables alone.
filterSchema_TablesOnly(schema) ==
  IF "tables" \notin DOMAIN schema THEN Schema(<<>>, None, None)
  ELSE Schema([t \in {n \in DOMAIN schema.tables : keepsTable(n, schema.tables[n])}
                 |-> schema.tables[t]],
              None, None)

\* filterSchema.  A document without `tables` gives {tables: {}} and nothing
\* else; otherwise a missing metadata becomes {} and a missing version 1.0.0.
filterSchema(schema) ==
  IF "tables" \notin DOMAIN schema THEN Schema(<<>>, None, None)
  ELSE Schema([t \in {n \in DOMAIN schema.tables : keepsTable(n, schema.tables[n])}
                 |-> schema.tables[t]],
              IF schema.metadata = None THEN Some(Metadata(None))
              ELSE schema.metadata,
              IF schema.version = None THEN Some(DefaultVersion)
              ELSE schema.version)

\* ------------------------------------------------- sync engine, pure part

\* mergeSchemas with the spread carried one level further down, into the
\* columns of a table both sides have.
mergeSchemas_PerColumn(localSchema, serverSchema) ==
  Schema([n \in DOMAIN localSchema.tables \cup DOMAIN serverSchema.tables |->
            IF n \notin DOMAIN serverSchema.tables THEN localSchema.tables[n]
            ELSE IF n \notin DOMAIN localSchema.tables THEN serverSchema.tables[n]
            ELSE [c \in DOMAIN localSchema.tables[n] \cup DOMAIN serverSchema.tables[n] |->
                    IF c \in DOMAIN serverSchema.tables[n]
                    THEN serverSchema.tables[n][c]
                    ELSE localSchema.tables[n][c]]],
         IF serverSchema.metadata # None THEN serverSchema.metadata
         ELSE localSchema.metadata,
         IF serverSchema.version # None THEN serverSchema.version
         ELSE localSchema.version)

\* mergeSchemas: {...local, ...server, tables: {...local.tables, ...server.tables}}
mergeSchemas(localSchema, serverSchema) ==
  Schema([n \in DOMAIN localSchema.tables \cup DOMAIN serverSchema.tables |->
            IF n \in DOMAIN serverSchema.tables THEN serverSchema.tables[n]
            ELSE localSchema.tables[n]],
         IF serverSchema.metadata # None THEN serverSchema.metadata
         ELSE localSchema.metadata,
         IF serverSchema.version # None THEN serverSchema.version
         ELSE localSchema.version)

\* The metadata updateSchemaFile reads from the file: {} when the file or
\* its metadata block is missing.
existingMetadata(file) ==
  IF file # None /\ file[1].metadata # None THEN file[1].metadata
  ELSE Some(Metadata(None))

\* updateSchemaFile writing the schema as it comes.
updateSchemaFile_DropsMetadata(file, schema) == schema

\* The document updateSchemaFile writes: {...schema, metadata:
\* schema.metadata || existingMetadata}
updateSchemaFile(file, schema) ==
  [schema EXCEPT !.metadata =
     IF schema.metadata # None THEN schema.metadata
     ELSE existingMetadata(file)]

\* The document setProjectInfos writes.
setProjectInfos(file, projectId, projectName) ==
  LET schema == IF file # None THEN file[1] ELSE Schema(<<>>, None, None)
  IN  [schema EXCEPT !.metadata = Some(Metadata(Some(Project(projectId, projectName))))]

\* getProjectInfos: the project of the file's metadata, {id: "", name: ""}
\* when the file, its metadata or the project is missing.
getProjectInfos(file) ==
  IF file # None /\ file[1].metadata # None /\ file[1].metadata[1].project # None
  THEN file[1].metadata[1].project[1]
  ELSE Project(<<>>, <<>>)

\* !projectCredentials, the test push and pull make on what getProjectInfos
\* returned: the value is a ProjectCredentials object, and the negation of
\* an object is false whatever its id and name are.
isFalsy(projectCredentials) == FALSE

\* hasSchemaChanged without the comparison with the last push.
hasSchemaChanged_AlwaysChanged(lastPushData, schemaHash, force) == TRUE

\* hasSchemaChanged
hasSchemaChanged(lastPushData, schemaHash, force) ==
  IF force THEN TRUE
  ELSE IF lastPushData # None /\ lastPushData[1].hash = schemaHash THEN FALSE
  ELSE TRUE

\* getSchemaLastModified and hasLocalChanges: the file's mtime, the epoch when
\* there is no file, compared with the last pull time.
hasLocalChanges(file, fileMtime, lastPullTime) ==
  (IF file # None THEN fileMtime ELSE 0) > lastPullTime

\* The last pull time getLocalSchemaInfo gives: the epoch without a record.
readLastPullTime(lastPullData) ==
  IF lastPullData # None THEN lastPullData[1].time ELSE 0

\* ------------------------------------------------------------ the state

\* The largest reading of the clock.
MaxTime == 2

VARIABLES
  schemaFile,  \* hosby.schema.json: None, or Some(document)
  mtime,       \* the modification time of hosby.schema.json
  lastPull,    \* .hosby-last-pull: None, or Some([time, hash])
  lastPush,    \* .hosby-last-push: None, or Some([time, hash, id])
  remote,      \* what the backend holds for the project: None, or Some(document)
  now,         \* the clock
  pc,          \* where the running command waits: idle, or at one of its awaits
  ctx,         \* the locals of the running command, kept once it has ended
  call,        \* a function applied on its own: its name, arguments and result
  ai           \* analyzeWithAI: its timer, its request and how it ended

vars == <<schemaFile, mtime, lastPull, lastPush, remote, now, pc, ctx, call, ai>>

sync == <<schemaFile, mtime, lastPull, lastPush, remote, now, pc, ctx, ai>>

\* Text used by the documents below.
Users == <<"u", "s", "e", "r", "s">>

Orders == <<"o", "r", "d", "e", "r", "s">>

ButtonProps == <<"b", "u", "t", "t", "o", "n", "p", "r", "o", "p", "s">>

ColId == <<"i", "d">>

ColAge == <<"a", "g", "e">>

TypeNumber == <<"n", "u", "m", "b", "e", "r">>

ProjectOne == Project(<<"p", "1">>, <<"s", "h", "o", "p">>)

ProjectTwo == Project(<<"p", "2">>, <<"c", "r", "m">>)

\* A table with the given columns, each of the given type text.
Table(cols) == [c \in DOMAIN cols |-> StrCol(cols[c])]

IdOnly == Table([c \in {ColId} |-> TypeString])

IdAndAge == Table([c \in {ColId, ColAge} |-> IF c = ColId THEN TypeString ELSE TypeNumber])

\* The documents a user's edit leaves in the schema file.
EditDocs ==
  {Schema([n \in {Users} |-> IdAndAge], None, None),
   Schema([n \in {Users} |-> IdAndAge], Some(Metadata(Some(ProjectOne))),
          Some(DefaultVersion))}

\* The schemas the backend may hold: one without a metadata block, one with
\* its own metadata.
RemoteDocs ==
  {Schema([n \in {Users, Orders} |-> IdOnly], None, None),
   Schema([n \in {Users} |-> IdAndAge], Some(Metadata(Some(ProjectTwo))),
          Some(DefaultVersion))}

\* The raw schemas an inferencer hands to processAndFilterSchema.
ScannedDocs ==
  {Schema([n \in {Users, ButtonProps} |-> IdOnly], None, None)}

ConflictActions == {"server", "local", "merge", "diff"}

\* How a request to the backend ends: a 2xx response, ECONNABORTED, a 401,
\* any other error response.
RequestOutcomes == {"ok", "timeout", "unauthorized", "server_error"}

NoCommand ==
  [op |-> "none", outcome |-> "", force |-> FALSE, schemaData |-> None,
   hash |-> <<>>, lastPullTime |-> 0, projectId |-> <<>>, server |-> None,
   isUpdated |-> FALSE, asked |-> 0, mtime0 |-> 0, sent |-> FALSE,
   prevValid |-> FALSE, prevSent |-> FALSE, prevOk |-> FALSE,
   request |-> "", prev |-> "", answers |-> <<>>]

\* No function is applied on its own.
NoCall ==
  [fn |-> "none", args |-> <<>>, done |-> FALSE, result |-> <<>>,
   after |-> "none"]

\* analyzeWithAI has not run: no timer, no request.  For the generation of
\* a service: the timer of the race, how the race settled, who wrote the
\* service file, the time since the start and the time the request's timer
\* was armed at.
NoAnalysis ==
  [pc |-> "idle", timeout |-> 0, timer |-> "none", aborted |-> FALSE,
   cleared |-> 0, answer |-> <<>>, result |-> <<>>, wrote |-> FALSE,
   race |-> "none", settled |-> "", writes |-> <<>>, elapsed |-> 0,
   armedAt |-> 0]

Init ==
  /\ schemaFile = None
  /\ mtime = 0
  /\ lastPull = None
  /\ lastPush = None
  /\ remote = None
  /\ now = 1
  /\ pc = "idle"
  /\ ctx = NoCommand
  /\ call = NoCall
  /\ ai = NoAnalysis

\* ------------------------------------------------- the world around it

Tick ==
  /\ UNCHANGED <<call, ai>>
  /\ now < MaxTime
  /\ now' = now + 1
  /\ UNCHANGED <<schemaFile, mtime, lastPull, lastPush, remote, pc, ctx>>

\* The user edits hosby.schema.json between two commands, or saves it as it
\* is.
LocalEdit ==
  /\ UNCHANGED <<call, ai>>
  /\ pc = "idle"
  /\ \E d \in EditDocs \cup {schemaFile[i] : i \in DOMAIN schemaFile} :
       schemaFile' = Some(d)
  /\ mtime' = now
  /\ ctx' = NoCommand
  /\ UNCHANGED <<lastPull, lastPush, remote, now, pc>>

\* The backend's schema changes (another client pushed).
ServerChange ==
  /\ UNCHANGED <<call, ai>>
  /\ pc = "idle"
  /\ \E r \in {None} \cup {Some(d) : d \in RemoteDocs} : r # remote /\ remote' = r
  /\ ctx' = NoCommand
  /\ UNCHANGED <<schemaFile, mtime, lastPull, lastPush, now, pc>>

\* ------------------------------------------------------------ commands

\* hosby config project: setProjectInfos writes the project into the file.
SetProjectInfos ==
  /\ UNCHANGED <<call, ai>>
  /\ pc = "idle"
  /\ \E p \in {ProjectOne} :
       schemaFile' = Some(setProjectInfos(schemaFile, p.id, p.name))
  /\ mtime' = now
  /\ ctx' = [NoCommand EXCEPT !.op = "config"]
  /\ UNCHANGED <<lastPull, lastPush, remote, now, pc>>

\* hosby scan: processAndFilterSchema sanitizes and filters the inferred
\* schema and writes it to hosby.schema.json.
Scan ==
  /\ UNCHANGED <<call, ai>>
  /\ pc = "idle"
  /\ \E schema \in ScannedDocs :
       schemaFile' = Some(filterSchema(sanitizeSchema(schema)))
  /\ mtime' = now
  /\ ctx' = [NoCommand EXCEPT !.op = "scan"]
  /\ UNCHANGED <<lastPull, lastPush, remote, now, pc>>

\* The locals of a command that starts now; prev is how the same command
\* ended when it was the last thing that happened to the project, the clock
\* aside.
Started(op, force) ==
  [NoCommand EXCEPT
     !.op = op, !.force = force, !.schemaData = schemaFile, !.mtime0 = mtime,
     !.hash = IF schemaFile = None THEN <<>> ELSE getSchemaHash(schemaFile[1]),
     !.lastPullTime = readLastPullTime(lastPull),
     !.projectId = getProjectInfos(schemaFile).id,
     !.prevValid = /\ op = "push" /\ ~force
                   /\ ctx.op = "push" /\ ~ctx.force
                   /\ ctx.schemaData = schemaFile,
     !.prevSent = ctx.sent,
     !.prevOk = (ctx.outcome = "pushed"),
     !.prev = IF ctx.op = op THEN ctx.outcome ELSE ""]

\* push(force), up to the request to the backend.  loggedIn: requireLogin
\* finds the three login keys in the credential store; it ends the process
\* when it does not.
PushStart ==
  /\ UNCHANGED <<call, ai>>
  /\ pc = "idle"
  /\ \E force \in BOOLEAN, loggedIn \in BOOLEAN :
       LET c == Started("push", force)
       IN  IF schemaFile = None
           THEN /\ ctx' = [c EXCEPT !.outcome = "no_schema_file"]
                /\ pc' = "idle"
           ELSE IF ~hasSchemaChanged(lastPush, c.hash, force)
           THEN /\ ctx' = [c EXCEPT !.outcome = "unchanged"]
                /\ pc' = "idle"
           ELSE IF ~loggedIn
           THEN /\ ctx' = [c EXCEPT !.outcome = "exit"]
                /\ pc' = "idle"
           ELSE IF isFalsy(getProjectInfos(schemaFile))
           THEN /\ ctx' = [c EXCEPT !.outcome = "no_project_info"]
                /\ pc' = "idle"
           ELSE /\ ctx' = [c EXCEPT !.outcome = "sending", !.sent = TRUE]
                /\ pc' = "push_send"
  /\ UNCHANGED <<schemaFile, mtime, lastPull, lastPush, remote, now>>

\* updateLastPushFile with its two arguments exchanged.
updateLastPushFile_SwappedArguments(schemaHash, projectId) ==
  Some([time |-> now, hash |-> projectId, id |-> schemaHash])

\* updateLastPushFile
updateLastPushFile(schemaHash, projectId) ==
  Some([time |-> now, hash |-> schemaHash, id |-> projectId])

\* lastPushAfter with updateLastPushFile ahead of the request's end.
lastPushAfter_WritesBeforeAnswer(outcome, lastPushData, schemaHash, projectId) ==
  updateLastPushFile(schemaHash, projectId)

\* .hosby-last-push once the request has ended: updateLastPushFile follows
\* the awaited pushSchemaToServer, a failure goes to the catch block.
lastPushAfter(outcome, lastPushData, schemaHash, projectId) ==
  IF outcome = "ok" THEN updateLastPushFile(schemaHash, projectId)
  ELSE lastPushData

\* push, from the backend's answer on.
PushResponse ==
  /\ UNCHANGED <<call, ai>>
  /\ pc = "push_send"
  /\ \E outcome \in RequestOutcomes :
       /\ lastPush' = lastPushAfter(outcome, lastPush, ctx.hash, ctx.projectId)
       /\ ctx' = [ctx EXCEPT !.request = outcome,
                             !.outcome = IF outcome = "ok" THEN "pushed" ELSE outcome]
  /\ pc' = "idle"
  /\ UNCHANGED <<schemaFile, mtime, lastPull, remote, now>>

\* pull, up to the request to the backend.
PullStart ==
  /\ UNCHANGED <<call, ai>>
  /\ pc = "idle"
  /\ \E loggedIn \in BOOLEAN :
       LET c == Started("pull", FALSE)
       IN  IF schemaFile = None
           THEN /\ ctx' = [c EXCEPT !.outcome = "no_schema_file"]
                /\ pc' = "idle"
           ELSE IF ~loggedIn
           THEN /\ ctx' = [c EXCEPT !.outcome = "exit"]
                /\ pc' = "idle"
           ELSE IF isFalsy(getProjectInfos(schemaFile))
           THEN /\ ctx' = [c EXCEPT !.outcome = "no_project_info"]
                /\ pc' = "idle"
           ELSE /\ ctx' = [c EXCEPT !.outcome = "fetching", !.sent = TRUE]
                /\ pc' = "pull_fetch"
  /\ UNCHANGED <<schemaFile, mtime, lastPull, lastPush, remote, now>>

\* updateLastPullTime, date being the reading of the clock when it runs.
updateLastPullTime(schemaHash, date) == Some([time |-> date, hash |-> schemaHash])

\* The order of the two writes exchanged: the record first, the file last.
writeTimes_RecordFirst(start, end) == [schemaFile |-> end, lastPull |-> start]

\* When the two writes that end a pull happen, the pull's last steps running
\* from start to end: the schema file is written first, the last-pull record
\* is the last statement of processServerResponse.
writeTimes(start, end) == [schemaFile |-> start, lastPull |-> end]

\* pullBranch without the hasLocalMods test: a change is written at once.
pullBranch_NeverConflict(serverSchema, isUpdated, localSchemaHash, hasLocalMods) ==
  IF isUpdated \/ getSchemaHash(serverSchema) # localSchemaHash THEN "updated"
  ELSE "up_to_date"

\* pullBranch asking whenever the file was modified, changed or not.
pullBranch_AsksOnLocalMods(serverSchema, isUpdated, localSchemaHash, hasLocalMods) ==
  IF hasLocalMods THEN "conflict"
  ELSE IF isUpdated \/ getSchemaHash(serverSchema) # localSchemaHash THEN "updated"
  ELSE "up_to_date"

\* The branch processServerResponse takes for a response with a schema.
pullBranch(serverSchema, isUpdated, localSchemaHash, hasLocalMods) ==
  LET hasChanges == getSchemaHash(serverSchema) # localSchemaHash
  IN  IF (isUpdated \/ hasChanges) /\ hasLocalMods THEN "conflict"
      ELSE IF isUpdated \/ hasChanges THEN "updated"
      ELSE "up_to_date"

\* pullFailed taking only the timeout for a failure.
pullFailed_OnlyTimeout(outcome) == outcome = "timeout"

\* The awaited fetchServerSchema rejects and pull goes to its catch block:
\* axios rejects on a timeout and on every status outside 2xx.
pullFailed(outcome) == outcome # "ok"

\* pull, from the backend's answer to the end of processServerResponse or to
\* the prompt of handleSchemaConflicts.
PullResponse ==
  /\ UNCHANGED <<call, ai>>
  /\ pc = "pull_fetch"
  /\ \E outcome \in RequestOutcomes, isUpdated \in BOOLEAN :
       IF pullFailed(outcome)
       THEN /\ ctx' = [ctx EXCEPT !.request = outcome, !.outcome = outcome]
            /\ pc' = "idle"
            /\ UNCHANGED <<schemaFile, mtime, lastPull, now>>
       ELSE IF remote = None
       THEN /\ ctx' = [ctx EXCEPT !.request = outcome, !.outcome = "no_updates",
                                  !.isUpdated = isUpdated]
            /\ pc' = "idle"
            /\ UNCHANGED <<schemaFile, mtime, lastPull, now>>
       ELSE LET serverSchema == remote[1]
                branch == pullBranch(serverSchema, isUpdated, ctx.hash,
                            hasLocalChanges(schemaFile, mtime, ctx.lastPullTime))
                c == [ctx EXCEPT !.request = outcome,
                                 !.server = remote, !.isUpdated = isUpdated,
                                 !.outcome = branch]
            IN  IF branch = "conflict"
                THEN /\ ctx' = c
                     /\ pc' = "pull_prompt"
                     /\ UNCHANGED <<schemaFile, mtime, lastPull, now>>
                ELSE \E end \in now..MaxTime :
                     /\ ctx' = c
                     /\ pc' = "idle"
                     /\ IF branch = "updated"
                        THEN /\ schemaFile' = Some(updateSchemaFile(schemaFile, serverSchema))
                             /\ mtime' = writeTimes(now, end).schemaFile
                        ELSE UNCHANGED <<schemaFile, mtime>>
                     /\ lastPull' = updateLastPullTime(getSchemaHash(serverSchema),
                                                       writeTimes(now, end).lastPull)
                     /\ now' = end
  /\ UNCHANGED <<lastPush, remote>>

\* resolveConflict with the LOCAL and the default branch exchanged.
resolveConflict_LocalWritesServer(action, localSchema, serverSchema) ==
  IF action = "local" THEN Some(serverSchema)
  ELSE IF action = "merge" THEN Some(mergeSchemas(localSchema, serverSchema))
  ELSE None

\* The schema resolveConflict hands to updateSchemaFile: none for LOCAL, the
\* merged one for MERGE, the server's otherwise.
resolveConflict(action, localSchema, serverSchema) ==
  IF action = "local" THEN None
  ELSE IF action = "merge" THEN Some(mergeSchemas(localSchema, serverSchema))
  ELSE Some(serverSchema)

\* resolveConflict, then the updateLastPullTime that ends processServerResponse;
\* the clock may advance between the two.
ResolveConflict(action) ==
  /\ \E end \in now..MaxTime :
       /\ LET schema == resolveConflict(action, ctx.schemaData[1], ctx.server[1])
          IN  IF schema = None
              THEN UNCHANGED <<schemaFile, mtime>>
              ELSE /\ schemaFile' = Some(updateSchemaFile(schemaFile, schema[1]))
                   /\ mtime' = writeTimes(now, end).schemaFile
       /\ lastPull' = updateLastPullTime(getSchemaHash(ctx.server[1]),
                                         writeTimes(now, end).lastPull)
       /\ now' = end
  /\ pc' = "idle"
  /\ ctx' = [ctx EXCEPT !.asked = @ + 1,
                        !.answers = Append(@, action),
                        !.outcome = CASE action = "local" -> "kept_local"
                                      [] action = "merge" -> "merged"
                                      [] OTHER -> "replaced"]

\* The answer to the prompt of handleSchemaConflicts.
PullChoice ==
  /\ UNCHANGED <<call, ai>>
  /\ pc = "pull_prompt"
  /\ \E action \in ConflictActions :
       IF action = "diff"
       THEN /\ pc' = "pull_diff"
            /\ ctx' = [ctx EXCEPT !.asked = @ + 1,
                                  !.answers = Append(@, action)]
            /\ UNCHANGED <<schemaFile, mtime, lastPull, now>>
       ELSE ResolveConflict(action)
  /\ UNCHANGED <<lastPush, remote>>

\* The choices of handleDiffView with the diff offered once more.
SecondActions_WithDiff == ConflictActions

\* The choices of the prompt of handleDiffView.
SecondActions == ConflictActions \ {"diff"}

\* The answer to the prompt of handleDiffView.
PullSecondChoice ==
  /\ UNCHANGED <<call, ai>>
  /\ pc = "pull_diff"
  /\ \E secondAction \in SecondActions : ResolveConflict(secondAction)
  /\ UNCHANGED <<lastPush, remote>>

\* What happens to the project directory between two sync commands.
Local == Tick \/ LocalEdit \/ SetProjectInfos \/ Scan

Push == PushStart \/ PushResponse

Pull == ServerChange \/ PullStart \/ PullResponse \/ PullChoice \/ PullSecondChoice

Next == Local \/ Push \/ Pull

Spec == Init /\ [][Next]_vars

\* push reads and writes hosby.schema.json and .hosby-last-push only, pull
\* hosby.schema.json and .hosby-last-pull only, so each is also checked with
\* the other left out: to the one, the other's writes to the schema file are
\* edits like the user's.
NextPush == Local \/ Push

SpecPush == Init /\ [][NextPush]_vars

NextPull == Local \/ Pull

SpecPull == Init /\ [][NextPull]_vars

\* ------------------------------------------------ mergeSchemas, alone

\* The schemas mergeSchemas is called with: users and orders, each missing,
\* with id only or with id and age; with or without metadata and version.
MergeTables ==
  UNION {[names -> {IdOnly, IdAndAge}] : names \in SUBSET {Users, Orders}}

MergeDocs ==
  {Schema(t, m, v) : t \in MergeTables,
                     m \in {None, Some(Metadata(Some(ProjectOne)))},
                     v \in {None, Some(DefaultVersion)}}

InitMerge ==
  /\ schemaFile = None /\ mtime = 0 /\ lastPull = None /\ lastPush = None
  /\ remote = None /\ now = 1 /\ pc = "idle" /\ ctx = NoCommand
  /\ ai = NoAnalysis
  /\ \E localSchema \in MergeDocs, serverSchema \in MergeDocs :
       call = [NoCall EXCEPT !.fn = "mergeSchemas",
                             !.args = <<localSchema, serverSchema>>]

CallMergeSchemas ==
  /\ call.fn = "mergeSchemas" /\ ~call.done
  /\ call' = [call EXCEPT !.done = TRUE,
                          !.result = <<mergeSchemas(call.args[1], call.args[2])>>]
  /\ UNCHANGED sync

NextMerge == CallMergeSchemas

SpecMerge == InitMerge /\ [][NextMerge]_vars

\* ------------------------------------- sanitizeSchema and filterSchema

Calendar == <<"C", "a", "l", "e", "n", "d", "a", "r">>

UserView == <<"u", "s", "e", "r", "v", "i", "e", "w">>

\* The column values an inferencer may leave: strings in and out of the
\* vocabulary, a number, a boolean, null, an array, descriptors with a known
\* type, an unknown type and no type.
RawColumns ==
  {StrCol(TypeString), StrCol(<<"S", "t", "r", "i", "n", "g">>),
   StrCol(<<"v", "a", "r", "c", "h", "a", "r">>),
   StrCol(<<"d", "a", "t", "e", ":", "i", "s", "o">>),
   StrCol(<<"e", "n", "u", "m", "[", "a", ",", "b", "]">>),
   StrCol(<<"E", "n", "u", "m", ":", "[", "a", "]">>),
   [kind |-> "number", text |-> <<"4", "2">>],
   [kind |-> "boolean", text |-> <<"t", "r", "u", "e">>],
   [kind |-> "null", text |-> <<>>],
   [kind |-> "array", text |-> <<>>],
   [kind |-> "object", text |-> TypeNumber],
   [kind |-> "object", text |-> <<"u", "u", "i", "d">>],
   [kind |-> "objectNoType", text |-> <<>>]}

\* users with no column or with one column of any raw value; Calendar (on
\* the ignore list once lowercased) empty or with a column; buttonprops and
\* userview (UI names) with a column.
RawTables ==
  {t \in UNION {[names -> {<<>>} \cup {[c \in {ColId} |-> v] : v \in RawColumns}]
                  : names \in SUBSET {Users, Calendar, ButtonProps, UserView}} :
     /\ \A n \in DOMAIN t \ {Users} : t[n] \in {<<>>, IdOnly}
     /\ \A n \in DOMAIN t \cap {ButtonProps, UserView} : t[n] = IdOnly}

RawVersion == <<"2", ".", "1", ".", "0">>

\* The documents handed to sanitizeSchema and filterSchema, with and without
\* a tables field.
RawDocs ==
  {Schema(t, m, v) : t \in RawTables,
                     m \in {None, Some(Metadata(Some(ProjectOne)))},
                     v \in {None, Some(RawVersion)}}
  \cup {[metadata |-> m, version |-> v] :
           m \in {None, Some(Metadata(Some(ProjectOne)))},
           v \in {None, Some(RawVersion)}}

InitFilter ==
  /\ schemaFile = None /\ mtime = 0 /\ lastPull = None /\ lastPush = None
  /\ remote = None /\ now = 1 /\ pc = "idle" /\ ctx = NoCommand
  /\ ai = NoAnalysis
  /\ \E schema \in RawDocs :
       call = [NoCall EXCEPT !.fn = "input", !.args = <<schema>>]

CallSanitizeSchema ==
  /\ call.fn = "input"
  /\ call' = [call EXCEPT !.fn = "sanitizeSchema", !.done = TRUE,
                          !.result = <<sanitizeSchema(call.args[1])>>]
  /\ UNCHANGED sync

\* filterSchema, on a document as it comes or, as processAndFilterSchema
\* does, on the result of sanitizeSchema.
CallFilterSchema ==
  /\ \/ call.fn = "input"
        /\ call' = [call EXCEPT !.fn = "filterSchema", !.done = TRUE,
                                !.result = <<filterSchema(call.args[1])>>]
     \/ call.fn = "sanitizeSchema" /\ call.done
        /\ call' = [call EXCEPT !.fn = "filterSchema", !.after = "sanitizeSchema",
                                !.args = call.result,
                                !.result = <<filterSchema(call.result[1])>>]
  /\ UNCHANGED sync

NextFilter == CallSanitizeSchema \/ CallFilterSchema

SpecFilter == InitFilter /\ [][NextFilter]_vars

\* ------------------------------------------------------ analyzeWithAI

\* The timeouts scan hands to analyzeWithAI, in milliseconds: --timeout, or
\* 60000 without it.
Timeouts == {30000, 60000}

NotJson == <<"n", "o", "t", " ", "j", "s", "o", "n">>

\* A response cut off after the first key.
CutJson == <<"{">> \o JsonString(<<"t", "a", "b", "l", "e", "s">>) \o <<":">>

\* The documents whose JSON the provider may send.
AIDocs ==
  {Schema(<<>>, None, None), Schema([n \in {Users} |-> IdOnly], None, None),
   Schema([n \in {Users, ButtonProps} |-> IdOnly], None, None)}

\* What the provider's call resolves or rejects with: a text (JSON with
\* tables, {} without tables, no JSON, cut JSON, nothing), or an error with
\* its code.
ProviderAnswers ==
  {[kind |-> "text", text |-> t] :
     t \in {StableJson(d) : d \in AIDocs}
           \cup {<<"{", "}">>, NotJson, CutJson, <<>>}}
  \cup {[kind |-> "error", text |-> code] :
          code \in {"context_length_exceeded", "rate_limit_exceeded",
                    "invalid_api_key", "unexpected_format"}}

\* JSON.parse on the provider's text: the document the text is the JSON of,
\* None when it throws.
JSONparse(text) ==
  IF text = <<"{", "}">> THEN Some([metadata |-> None, version |-> None])
  ELSE LET docs == {d \in AIDocs : StableJson(d) = text}
       IN  IF docs = {} THEN None ELSE Some(CHOOSE d \in docs : TRUE)

Success(schema) == [ok |-> TRUE, schema |-> schema, error |-> "", seconds |-> 0]

Failure(error, seconds) ==
  [ok |-> FALSE, schema |-> <<>>, error |-> error, seconds |-> seconds]

\* analyzeWithAI giving the empty schema of its inner catch block back.
analyzeWithAI_EmptyOnParseError(answer, timeout) ==
  IF answer.kind = "text"
  THEN Success(IF JSONparse(answer.text) = None
                  \/ "tables" \notin DOMAIN JSONparse(answer.text)[1]
               THEN Schema(<<>>, None, None)
               ELSE JSONparse(answer.text)[1])
  ELSE Failure(answer.text, 0)

\* analyzeWithAI from the end of the provider's call: what it returns or the
\* error it throws.  A rejection named AbortError is the timeout, with the
\* duration in seconds; a parse error is rethrown by the outer catch block
\* as a failed analysis.
analyzeWithAI(answer, timeout) ==
  IF answer.kind = "abort" THEN Failure("timed_out", timeout \div 1000)
  ELSE IF answer.kind = "error"
  THEN Failure(IF answer.text = "unexpected_format" THEN "analysis_failed"
               ELSE answer.text, 0)
  ELSE LET parsed == JSONparse(answer.text)
       IN  IF parsed = None THEN Failure("analysis_failed", 0)
           ELSE IF "tables" \notin DOMAIN parsed[1]
           THEN Success(Schema(<<>>, None, None))
           ELSE Success(parsed[1])

\* clearTimeout leaving the timer armed.
clearTimeout_Keeps(timer) == timer

\* clearTimeout: an armed timer is released, any other is left as it is.
clearTimeout(timer) == IF timer = "armed" THEN "cleared" ELSE timer

\* scan --ai, to the provider's call in analyzeWithAI: the timer is armed
\* and the request sent with the controller's signal.
ScanAIStart ==
  /\ pc = "idle"
  /\ \E timeout \in Timeouts :
       ai' = [NoAnalysis EXCEPT !.pc = "request", !.timeout = timeout,
                                !.timer = "armed"]
  /\ pc' = "scan_ai"
  /\ ctx' = [NoCommand EXCEPT !.op = "scan"]
  /\ UNCHANGED <<schemaFile, mtime, lastPull, lastPush, remote, now, call>>

\* The end of scan's AI branch: processAndFilterSchema writes the schema
\* analyzeWithAI returned, nothing is written when it threw.
scanWrites(result, file) ==
  IF result.ok THEN Some(filterSchema(sanitizeSchema(result.schema))) ELSE file

\* The provider's call ends before the timer fires.  A text passes the
\* clearTimeout after the call and the one of the finally block, an error
\* only the latter.
ProviderAnswered ==
  /\ pc = "scan_ai" /\ ai.pc = "request"
  /\ \E answer \in ProviderAnswers :
       LET result == analyzeWithAI(answer, ai.timeout)
           timer == IF answer.kind = "text"
                    THEN clearTimeout(clearTimeout(ai.timer))
                    ELSE clearTimeout(ai.timer)
       IN  /\ ai' = [ai EXCEPT !.pc = "done", !.answer = answer,
                               !.result = result, !.timer = timer,
                               !.cleared = IF answer.kind = "text" THEN 2 ELSE 1,
                               !.wrote = result.ok]
           /\ schemaFile' = scanWrites(result, schemaFile)
           /\ mtime' = IF result.ok THEN now ELSE mtime
  /\ pc' = "idle"
  /\ UNCHANGED <<lastPull, lastPush, remote, now, ctx, call>>

\* The timer fires while the request is in flight: controller.abort().
TimerFires ==
  /\ pc = "scan_ai" /\ ai.pc = "request" /\ ai.timer = "armed"
  /\ ai' = [ai EXCEPT !.pc = "aborted", !.timer = "fired", !.aborted = TRUE]
  /\ UNCHANGED <<schemaFile, mtime, lastPull, lastPush, remote, now, pc, ctx, call>>

\* The aborted request rejects with an AbortError: catch, finally, and
\* scan's catch block.
RequestAborted ==
  /\ pc = "scan_ai" /\ ai.pc = "aborted"
  /\ LET answer == [kind |-> "abort", text |-> <<>>]
         result == analyzeWithAI(answer, ai.timeout)
     IN  /\ ai' = [ai EXCEPT !.pc = "done", !.answer = answer,
                             !.result = result,
                             !.timer = clearTimeout(ai.timer), !.cleared = 1,
                             !.wrote = result.ok]
         /\ schemaFile' = scanWrites(result, schemaFile)
         /\ mtime' = IF result.ok THEN now ELSE mtime
  /\ pc' = "idle"
  /\ UNCHANGED <<lastPull, lastPush, remote, now, ctx, call>>

NextAI ==
  \/ Tick \/ LocalEdit
  \/ ScanAIStart \/ ProviderAnswered \/ TimerFires \/ RequestAborted

SpecAI == Init /\ [][NextAI]_vars

\* ---------------------------------------------------- file selector

\* String.prototype.replace with a global pattern for the text `from`: every
\* occurrence, left to right, none overlapping.
RECURSIVE ReplaceAll(_, _, _)
ReplaceAll(s, from, to) ==
  IF Len(s) = 0 THEN s
  ELSE IF startsWith(s, from)
  THEN to \o ReplaceAll(SubSeq(s, Len(from) + 1, Len(s)), from, to)
  ELSE <<s[1]>> \o ReplaceAll(SubSeq(s, 2, Len(s)), from, to)

\* ignorePatterns
ignorePatterns ==
  {<<"*", "*", "/", "n", "o", "d", "e", "_", "m", "o", "d", "u", "l", "e", "s", "/", "*", "*">>,
   <<"*", "*", "/", "d", "i", "s", "t", "/", "*", "*">>,
   <<"*", "*", "/", "b", "u", "i", "l", "d", "/", "*", "*">>,
   <<"*", "*", "/", "p", "u", "b", "l", "i", "c", "/", "*", "*">>,
   <<"*", "*", "/", "c", "o", "v", "e", "r", "a", "g", "e", "/", "*", "*">>,
   <<"*", "*", "/", "s", "t", "y", "l", "e", "s", "/", "*", "*">>,
   <<"*", "*", "/", "c", "s", "s", "/", "*", "*">>,
   <<"*", "*", "/", "s", "r", "c", "/", "l", "i", "b", "/", "h", "o", "s", "b", "y", "C", "l", "i", "e", "n", "t", ".", "t", "s">>,
   <<"*", "*", "/", "*", "*", "/", "h", "o", "s", "b", "y", "C", "l", "i", "e", "n", "t", ".", "t", "s">>,
   <<"h", "o", "s", "b", "y", ".", "s", "c", "h", "e", "m", "a", ".", "j", "s", "o", "n">>,
   <<"c", "o", "m", "p", "o", "n", "e", "n", "t", "s", ".", "j", "s", "o", "n">>,
   <<"t", "a", "i", "l", "w", "i", "n", "d", ".", "c", "o", "n", "f", "i", "g", ".", "*">>,
   <<"v", "i", "t", "e", ".", "c", "o", "n", "f", "i", "g", ".", "*">>,
   <<"p", "o", "s", "t", "c", "s", "s", ".", "c", "o", "n", "f", "i", "g", ".", "*">>,
   <<"e", "s", "b", "u", "i", "l", "d", ".", "c", "o", "n", "f", "i", "g", ".", "*">>,
   <<"t", "s", "c", "o", "n", "f", "i", "g", ".", "j", "s", "o", "n">>,
   <<"j", "s", "c", "o", "n", "f", "i", "g", ".", "j", "s", "o", "n">>,
   <<"p", "a", "c", "k", "a", "g", "e", ".", "j", "s", "o", "n">>,
   <<"n", "e", "x", "t", ".", "c", "o", "n", "f", "i", "g", ".", "*">>,
   <<"t", "s", "c", "o", "n", "f", "i", "g", ".", "*", ".", "*">>,
   <<"j", "s", "c", "o", "n", "f", "i", "g", ".", "*", ".", "*">>,
   <<"y", "a", "r", "n", ".", "l", "o", "c", "k">>,
   <<"p", "n", "p", "m", "-", "l", "o", "c", "k", ".", "y", "a", "m", "l">>,
   <<"p", "a", "c", "k", "a", "g", "e", "-", "l", "o", "c", "k", ".", "j", "s", "o", "n">>}

\* The regular expression isBusinessLogicFile makes of a pattern: "**" to
\* ".*", then every "*" (those just written too) to "[^/]*", then "?" to ".".
regexPattern(pattern) ==
  ReplaceAll(ReplaceAll(ReplaceAll(pattern, <<"*", "*">>, <<".", "*">>),
                        <<"*">>, <<"[", "^", "/", "]", "*">>),
             <<"?">>, <<".">>)

\* The regular expression read as its parts: "seg" for [^/]*, "any" for the
\* dot, anything else for itself.
RECURSIVE RegExpParts(_)
RegExpParts(r) ==
  IF Len(r) = 0 THEN <<>>
  ELSE IF startsWith(r, <<"[", "^", "/", "]", "*">>)
  THEN <<"seg">> \o RegExpParts(SubSeq(r, 6, Len(r)))
  ELSE IF r[1] = "." THEN <<"any">> \o RegExpParts(SubSeq(r, 2, Len(r)))
  ELSE <<r[1]>> \o RegExpParts(SubSeq(r, 2, Len(r)))

\* The parts from the k-th on match the text from position j on.
RECURSIVE MatchAt(_, _, _, _)
MatchAt(parts, k, text, j) ==
  IF k > Len(parts) THEN TRUE
  ELSE IF parts[k] = "seg"
  THEN \/ MatchAt(parts, k + 1, text, j)
       \/ j <= Len(text) /\ text[j] # "/" /\ MatchAt(parts, k, text, j + 1)
  ELSE /\ j <= Len(text)
       /\ (parts[k] = "any" \/ parts[k] = text[j])
       /\ MatchAt(parts, k + 1, text, j + 1)

\* new RegExp(r).test(text): a match anywhere in the text.
RegExpTest(r, text) ==
  LET parts == RegExpParts(r)
  IN  \E j \in 1..(Len(text) + 1) : MatchAt(parts, 1, text, j)

\* path.basename and path.extname
basename(filePath) ==
  LET slashes == {i \in 1..Len(filePath) : filePath[i] = "/"}
  IN  IF slashes = {} THEN filePath
      ELSE SubSeq(filePath, (CHOOSE i \in slashes : \A j \in slashes : j <= i) + 1,
                  Len(filePath))

extname(filePath) ==
  LET name == basename(filePath)
      dots == {i \in 2..Len(name) : name[i] = "."}
  IN  IF dots = {} THEN <<>>
      ELSE SubSeq(name, CHOOSE i \in dots : \A j \in dots : j <= i, Len(name))

supportedExtensions ==
  {<<".", "t", "s">>, <<".", "t", "s", "x">>, <<".", "j", "s">>,
   <<".", "j", "s", "x">>, <<".", "v", "u", "e">>,
   <<".", "s", "v", "e", "l", "t", "e">>,
   <<".", "c", "o", "m", "p", "o", "n", "e", "n", "t", ".", "t", "s">>,
   <<".", "m", "o", "d", "u", "l", "e", ".", "t", "s">>,
   <<".", "d", "i", "r", "e", "c", "t", "i", "v", "e", ".", "t", "s">>,
   <<".", "p", "i", "p", "e", ".", "t", "s">>,
   <<".", "a", "s", "t", "r", "o">>, <<".", "s", "o", "l", "i", "d">>,
   <<".", "e", "l", "m">>}

\* The file names that mark a data model, for isBusinessLogicFile and for
\* scoreFileImportance.
modelMarkers ==
  {<<"m", "o", "d", "e", "l">>, <<"s", "c", "h", "e", "m", "a">>,
   <<"e", "n", "t", "i", "t", "y">>, <<"t", "y", "p", "e">>}

\* isBusinessLogicFile
isBusinessLogicFile(filePath) ==
  LET fileName == toLowerCase(basename(filePath))
      fileExt == toLowerCase(extname(filePath))
  IN  IF \E pattern \in ignorePatterns : RegExpTest(regexPattern(pattern), filePath)
      THEN FALSE
      ELSE IF \E comp \in IGNORED_COMPONENTS : includes(fileName, toLowerCase(comp))
      THEN FALSE
      ELSE IF \/ includes(fileName, <<".", "t", "e", "s", "t", ".">>)
              \/ includes(fileName, <<".", "s", "p", "e", "c", ".">>)
              \/ includes(filePath, <<"/", "t", "e", "s", "t", "/">>)
              \/ includes(filePath, <<"/", "t", "e", "s", "t", "s", "/">>)
      THEN FALSE
      ELSE IF \/ includes(fileName, <<"u", "t", "i", "l", "s">>)
              \/ includes(fileName, <<"h", "e", "l", "p", "e", "r", "s">>)
              \/ includes(fileName, <<"c", "o", "n", "s", "t", "a", "n", "t", "s">>)
              \/ includes(fileName, <<"c", "o", "n", "f", "i", "g">>)
      THEN FALSE
      ELSE IF \E ext \in supportedExtensions : fileExt = ext \/ endsWith(filePath, ext)
      THEN TRUE
      ELSE \E marker \in modelMarkers : includes(fileName, marker)

\* A file of the project: its name, its size in bytes, what the patterns of
\* scoreFileImportance count in its content, and the length of the content
\* filterCodeContent leaves.
ProjectFile(name, size, interfaces, classes, types, imports, lines, reduced) ==
  [path |-> name, size |-> size, interfaces |-> interfaces,
   classes |-> classes, types |-> types, imports |-> imports,
   lines |-> lines, reduced |-> reduced]

AModelTs == <<"a", ".", "m", "o", "d", "e", "l", ".", "t", "s">>

ButtonTsx == <<"B", "u", "t", "t", "o", "n", ".", "t", "s", "x">>

UtilsTs == <<"u", "t", "i", "l", "s", ".", "t", "s">>

DialogTsx == <<"D", "i", "a", "l", "o", "g", ".", "t", "s", "x">>

BigEntityTs == <<"b", "i", "g", ".", "e", "n", "t", "i", "t", "y", ".", "t", "s">>

\* a.model.ts with one interface in 120 bytes, a component with its props
\* interface and two imports in six lines, a utility file, a component named
\* on the ignore list, and an entity file of 60000 bytes.
ProjectFiles ==
  {ProjectFile(AModelTs, 120, 1, 0, 0, 0, 4, 100),
   ProjectFile(ButtonTsx, 400, 1, 0, 0, 2, 6, 60),
   ProjectFile(UtilsTs, 200, 0, 0, 1, 0, 8, 180),
   ProjectFile(DialogTsx, 300, 1, 0, 0, 1, 9, 40),
   ProjectFile(BigEntityTs, 60000, 3, 1, 0, 0, 900, 50000)}

\* The directories the files are found in: the scanned directory itself and
\* its src.
ProjectDirs == {<<>>, <<"s", "r", "c", "/">>}

\* The limits analyzeWithAI calls filterProjectFiles with.
AIFilterConfig ==
  [maxFileSize |-> 50 * 1024, maxFiles |-> 30, maxTotalSize |-> 300 * 1024]

\* scoreFileImportance
scoreFileImportance(file) ==
  LET fileName == toLowerCase(basename(file.path))
      named == IF \E marker \in modelMarkers : includes(fileName, marker)
               THEN 20 ELSE 0
      counted == file.interfaces * 5 + file.classes * 5 + file.types * 3
      importRatioHigh == /\ file.imports > 0 /\ file.lines > 0
                         /\ file.imports * 10 > 3 * file.lines
      score == 50 + named + counted - (IF importRatioHigh THEN 15 ELSE 0)
  IN  IF score < 0 THEN 0 ELSE IF score > 100 THEN 100 ELSE score

\* Array.prototype.sort by score, descending: stable, so files of one score
\* stay in the order they were found in.
RECURSIVE sortByScore(_)
sortByScore(files) ==
  IF Len(files) = 0 THEN files
  ELSE LET rest == sortByScore(SubSeq(files, 1, Len(files) - 1))
           last == files[Len(files)]
           ahead == {i \in 1..Len(rest) :
                       scoreFileImportance(rest[i]) >= scoreFileImportance(last)}
           at == IF ahead = {} THEN 0
                 ELSE CHOOSE i \in ahead : \A j \in ahead : j <= i
       IN  SubSeq(rest, 1, at) \o <<last>> \o SubSeq(rest, at + 1, Len(rest))

\* The selection loop with continue for its second break: a file that would
\* pass maxTotalSize is skipped and the loop goes on.
RECURSIVE selectFiles_SkipsOverflow(_, _, _, _)
selectFiles_SkipsOverflow(files, selected, totalSize, config) ==
  IF Len(files) = 0 \/ Len(selected) >= config.maxFiles
  THEN [selectedFiles |-> selected, totalSize |-> totalSize]
  ELSE IF totalSize + files[1].reduced > config.maxTotalSize
  THEN selectFiles_SkipsOverflow(SubSeq(files, 2, Len(files)), selected,
                                 totalSize, config)
  ELSE selectFiles_SkipsOverflow(SubSeq(files, 2, Len(files)),
                                 Append(selected, files[1].path),
                                 totalSize + files[1].reduced, config)

\* The selection loop of filterProjectFiles: files are taken in order until
\* maxFiles are selected or one would pass maxTotalSize.
RECURSIVE selectFiles(_, _, _, _)
selectFiles(files, selected, totalSize, config) ==
  IF Len(files) = 0 \/ Len(selected) >= config.maxFiles
  THEN [selectedFiles |-> selected, totalSize |-> totalSize]
  ELSE IF totalSize + files[1].reduced > config.maxTotalSize
  THEN [selectedFiles |-> selected, totalSize |-> totalSize]
  ELSE selectFiles(SubSeq(files, 2, Len(files)),
                   Append(selected, files[1].path),
                   totalSize + files[1].reduced, config)

\* filterProjectFiles on the files scanDirectory found.
filterProjectFiles(allFiles, config) ==
  LET candidate(file) ==
        isBusinessLogicFile(file.path) /\ file.size <= config.maxFileSize
  IN  selectFiles(sortByScore(SelectSeq(allFiles, candidate)), <<>>, 0, config)

\* The limits filterProjectFiles takes when the caller gives none.
DEFAULT_CONFIG ==
  [maxFileSize |-> 100 * 1024, maxFiles |-> 50, maxTotalSize |-> 500 * 1024]

\* The limits filterProjectFiles is called with: those of analyzeWithAI, the
\* default ones with room for the largest file and 80 bytes more, and the
\* default ones with a single file allowed.
FilterConfigs ==
  {AIFilterConfig,
   [DEFAULT_CONFIG EXCEPT !.maxTotalSize = 50080],
   [DEFAULT_CONFIG EXCEPT !.maxFiles = 1]}

\* The most files a scanned directory holds.
MaxListed == 3

\* What scanDirectory finds: up to MaxListed files of one directory, in any
\* order.
Listings ==
  {files \in UNION {[1..n -> ProjectFiles] : n \in 0..MaxListed} :
     \A i, j \in DOMAIN files : i # j => files[i] # files[j]}

InitSelect ==
  /\ schemaFile = None /\ mtime = 0 /\ lastPull = None /\ lastPush = None
  /\ remote = None /\ now = 1 /\ pc = "idle" /\ ctx = NoCommand
  /\ ai = NoAnalysis
  /\ \E files \in Listings, dir \in ProjectDirs, config \in FilterConfigs :
       call = [NoCall EXCEPT
                 !.fn = "filterProjectFiles",
                 !.args = <<[i \in DOMAIN files |->
                               [files[i] EXCEPT !.path = dir \o @]],
                            config>>]

CallFilterProjectFiles ==
  /\ call.fn = "filterProjectFiles" /\ ~call.done
  /\ call' = [call EXCEPT
                !.done = TRUE,
                !.result = <<filterProjectFiles(call.args[1], call.args[2])>>]
  /\ UNCHANGED sync

NextSelect == CallFilterProjectFiles

SpecSelect == InitSelect /\ [][NextSelect]_vars

\* --------------------------------------------- getSchemaHash, key order

\* A parsed JSON value that keeps the order of its keys: a leaf with its JSON
\* text, or an object with its members <<key, value>> in insertion order.
Leaf(json) == [isObject |-> FALSE, json |-> json, members |-> <<>>]

Obj(members) == [isObject |-> TRUE, json |-> <<>>, members |-> members]

\* Object.keys(value): the keys in insertion order.
ObjectKeys(value) == [i \in DOMAIN value.members |-> value.members[i].key]

\* value[key]
Member(value, key) ==
  value.members[CHOOSE i \in DOMAIN value.members :
                  value.members[i].key = key].value

\* The replacer without the sort: the value as it came.
replacer_KeepsOrder(value) == value

\* The replacer of getSchemaHash: an object is rebuilt from its keys in
\* sorted order, any other value is returned as it is.
replacer(value) ==
  IF value.isObject
  THEN LET keys == SortKeys({ObjectKeys(value)[i] : i \in DOMAIN value.members})
       IN  Obj([i \in DOMAIN keys |->
                  [key |-> keys[i], value |-> Member(value, keys[i])]])
  ELSE value

\* JSON.stringify(value, replacer): the replacer is applied to the value,
\* then to every member of what it returned.
RECURSIVE JSONstringify(_)
JSONstringify(value) ==
  LET replaced == replacer(value)
      keys == ObjectKeys(replaced)
  IN  IF replaced.isObject
      THEN <<"{">>
           \o JsonMembers(keys,
                [k \in {keys[i] : i \in DOMAIN keys} |->
                   JSONstringify(Member(replaced, k))])
           \o <<"}">>
      ELSE replaced.json

\* getSchemaHash of a parsed object.
getSchemaHashOfObject(schema) == Base36(MaskedHash(JSONstringify(schema)))

\* The orders n distinct keys can come in.
KeyOrders(keys) ==
  {p \in [1..Cardinality(keys) -> keys] :
     \A i, j \in DOMAIN p : p[i] = p[j] => i = j}

\* The objects with the keys of alts, each key holding one of alts[key], the
\* keys in any order.
OrderedObjects(alts) ==
  {Obj([i \in DOMAIN p |-> [key |-> p[i], value |-> v[p[i]]]]) :
     p \in KeyOrders(DOMAIN alts),
     v \in {f \in [DOMAIN alts -> UNION {alts[k] : k \in DOMAIN alts}] :
              \A k \in DOMAIN alts : f[k] \in alts[k]}}

\* The parsed objects that hold the content of the document d.
OrderedProject(p) ==
  OrderedObjects([k \in {<<"i", "d">>, <<"n", "a", "m", "e">>} |->
                    IF k = <<"i", "d">> THEN {Leaf(JsonString(p.id))}
                    ELSE {Leaf(JsonString(p.name))}])

OrderedMetadata(m) ==
  OrderedObjects([k \in (IF m.project = None THEN {}
                          ELSE {<<"p", "r", "o", "j", "e", "c", "t">>})
                    |-> OrderedProject(m.project[1])])

OrderedTable(tbl) ==
  OrderedObjects([c \in DOMAIN tbl |-> {Leaf(JsonColumn(tbl[c]))}])

OrderedTables(t) == OrderedObjects([n \in DOMAIN t |-> OrderedTable(t[n])])

OrderedSchemas(d) ==
  LET kTables == <<"t", "a", "b", "l", "e", "s">>
      kMeta == <<"m", "e", "t", "a", "d", "a", "t", "a">>
      kVersion == <<"v", "e", "r", "s", "i", "o", "n">>
      keys == {kTables} \cup (IF d.metadata = None THEN {} ELSE {kMeta})
                        \cup (IF d.version = None THEN {} ELSE {kVersion})
  IN  OrderedObjects([k \in keys |->
        IF k = kTables THEN OrderedTables(d.tables)
        ELSE IF k = kMeta THEN OrderedMetadata(d.metadata[1])
        ELSE {Leaf(JsonString(d.version[1]))}])

\* The documents hashed: two tables, one of them with two columns, and a
\* metadata block; the same with one table less and a version.
HashDocs ==
  {Schema([n \in {Users, Orders} |-> IF n = Users THEN IdAndAge ELSE IdOnly],
          Some(Metadata(Some(ProjectOne))), None),
   Schema([n \in {Users} |-> IdAndAge], Some(Metadata(Some(ProjectOne))),
          Some(DefaultVersion))}

InitHash ==
  /\ schemaFile = None /\ mtime = 0 /\ lastPull = None /\ lastPush = None
  /\ remote = None /\ now = 1 /\ pc = "idle" /\ ctx = NoCommand
  /\ ai = NoAnalysis
  /\ \E d1 \in HashDocs, d2 \in HashDocs :
       \E first \in OrderedSchemas(d1), second \in OrderedSchemas(d2) :
         call = [NoCall EXCEPT !.fn = "getSchemaHash",
                               !.args = <<first, second, d1>>]

\* getSchemaHash of the first object, of the first object once more, of the
\* second object, and of the document the first one was parsed from.
CallGetSchemaHash ==
  /\ call.fn = "getSchemaHash" /\ ~call.done
  /\ call' = [call EXCEPT
                !.done = TRUE,
                !.result = <<getSchemaHashOfObject(call.args[1]),
                             getSchemaHashOfObject(call.args[1]),
                             getSchemaHashOfObject(call.args[2]),
                             getSchemaHash(call.args[3])>>]
  /\ UNCHANGED sync

NextHash == CallGetSchemaHash

SpecHash == InitHash /\ [][NextHash]_vars

\* ------------------------------------------- pull, the last-pull file

\* What .hosby-last-pull can hold when pull reads it: nothing (no file), a
\* text JSON.parse rejects (an empty or cut file), or a record written by
\* updateLastPullTime at some time.
LastPullFiles ==
  {[kind |-> "absent", time |-> 0], [kind |-> "unparsable", time |-> 0]}
    \cup {[kind |-> "record", time |-> t] : t \in 1..MaxTime}

\* getLocalSchemaInfo with the present time for the default.
getLocalSchemaInfo_DefaultsToNow(schemaData, lastPullFile) ==
  [schemaData |-> schemaData,
   localSchemaHash |-> getSchemaHash(schemaData),
   lastPullTime |-> IF lastPullFile.kind = "record" THEN lastPullFile.time
                    ELSE MaxTime]

\* getLocalSchemaInfo: lastPullTime starts as new Date(0) and is replaced by
\* the record's time only when the file exists and parses; the catch block
\* leaves the epoch.
getLocalSchemaInfo(schemaData, lastPullFile) ==
  [schemaData |-> schemaData,
   localSchemaHash |-> getSchemaHash(schemaData),
   lastPullTime |-> IF lastPullFile.kind = "record" THEN lastPullFile.time
                    ELSE 0]

\* An existing schema file read at the start of a pull, with its
\* modification time, the last-pull file beside it, and the response.
InitFirstPull ==
  /\ schemaFile = None /\ mtime = 0 /\ lastPull = None /\ lastPush = None
  /\ remote = None /\ now = 1 /\ pc = "idle" /\ ctx = NoCommand
  /\ ai = NoAnalysis
  /\ \E schemaData \in EditDocs \cup RemoteDocs, lastPullFile \in LastPullFiles,
        fileMtime \in 1..MaxTime, serverSchema \in RemoteDocs,
        isUpdated \in BOOLEAN :
       call = [NoCall EXCEPT
                 !.fn = "processServerResponse",
                 !.args = <<schemaData, lastPullFile, fileMtime,
                            serverSchema, isUpdated>>]

\* getLocalSchemaInfo, then the branch processServerResponse takes.
CallProcessServerResponse ==
  /\ call.fn = "processServerResponse" /\ ~call.done
  /\ LET info == getLocalSchemaInfo(call.args[1], call.args[2])
         hasLocalMods == hasLocalChanges(Some(call.args[1]), call.args[3],
                                         info.lastPullTime)
     IN  call' = [call EXCEPT
                    !.done = TRUE,
                    !.result = <<pullBranch(call.args[4], call.args[5],
                                            info.localSchemaHash, hasLocalMods),
                                 hasLocalMods>>]
  /\ UNCHANGED sync

NextFirstPull == CallProcessServerResponse

SpecFirstPull == InitFirstPull /\ [][NextFirstPull]_vars

\* ------------------------------------------------------ generateWithAI

\* The timeout of the race in generateWithAI and the one generateServiceWithAI
\* hands to analyzeWithAI, in milliseconds; the step of the clock below, which
\* divides both.
RaceTimeout == 45000

ServiceTimeout == 30000

Quantum == ServiceTimeout \div 2

\* The longest time followed, in steps of the clock.
MaxElapsed == 6

\* A timer armed at the time at is due.
Due(at, timeout) == ai.elapsed = at + timeout \div Quantum

\* generateWithAI to its await: the race's timer is armed, then
\* generateServiceWithAI calls analyzeWithAI, which gets the API key (from
\* the environment, the credential store or a prompt) and the project files
\* before it arms its own timer.
GenerateWithAIStart ==
  /\ pc = "idle" /\ schemaFile # None /\ ai = NoAnalysis
  /\ ai' = [NoAnalysis EXCEPT !.pc = "prepare", !.timeout = ServiceTimeout,
                              !.race = "armed"]
  /\ pc' = "create_service"
  /\ ctx' = [NoCommand EXCEPT !.op = "create_service"]
  /\ UNCHANGED <<schemaFile, mtime, lastPull, lastPush, remote, now, call>>

\* Time passes; a timer that is due fires first.
ServiceTick ==
  /\ ai.pc \in {"prepare", "request"} \/ ai.race = "armed"
  /\ ai.elapsed < MaxElapsed
  /\ ~(ai.race = "armed" /\ Due(0, RaceTimeout))
  /\ ~(ai.timer = "armed" /\ Due(ai.armedAt, ai.timeout))
  /\ ai' = [ai EXCEPT !.elapsed = @ + 1]
  /\ UNCHANGED <<schemaFile, mtime, lastPull, lastPush, remote, now, pc, ctx, call>>

\* analyzeWithAI arms its timer and sends the request.
ServiceRequestSent ==
  /\ ai.pc = "prepare"
  /\ ai' = [ai EXCEPT !.pc = "request", !.timer = "armed",
                      !.armedAt = ai.elapsed]
  /\ UNCHANGED <<schemaFile, mtime, lastPull, lastPush, remote, now, pc, ctx, call>>

\* What the end of generateServiceWithAI does to the race and the service
\* file.  A result passes the then-callback, which writes the file whether
\* the race is still open or not; an error settles an open race, and one
\* whose message holds "timed out" makes the catch block call
\* generateWithTemplate.
serviceAfter(result, settled, writes) ==
  IF result.ok
  THEN [settled |-> IF settled = "" THEN "ai" ELSE settled,
        writes |-> Append(writes, "ai")]
  ELSE IF settled # "" THEN [settled |-> settled, writes |-> writes]
  ELSE IF result.error = "timed_out"
  THEN [settled |-> "ai_timeout", writes |-> Append(writes, "template")]
  ELSE [settled |-> "failed", writes |-> writes]

\* The provider's call ends before the timer of analyzeWithAI fires.
ServiceProviderAnswered ==
  /\ ai.pc = "request"
  /\ \E answer \in ProviderAnswers :
       LET result == analyzeWithAI(answer, ai.timeout)
           after == serviceAfter(result, ai.settled, ai.writes)
       IN  ai' = [ai EXCEPT !.pc = "done", !.answer = answer, !.result = result,
                            !.timer = clearTimeout(ai.timer),
                            !.settled = after.settled, !.writes = after.writes]
  /\ pc' = "idle"
  /\ UNCHANGED <<schemaFile, mtime, lastPull, lastPush, remote, now, ctx, call>>

\* The timer of analyzeWithAI fires: controller.abort().
ServiceTimerFires ==
  /\ ai.pc = "request" /\ ai.timer = "armed" /\ Due(ai.armedAt, ai.timeout)
  /\ ai' = [ai EXCEPT !.pc = "aborted", !.timer = "fired", !.aborted = TRUE]
  /\ UNCHANGED <<schemaFile, mtime, lastPull, lastPush, remote, now, pc, ctx, call>>

\* The aborted request rejects: analyzeWithAI throws its timeout error.
ServiceRequestAborted ==
  /\ ai.pc = "aborted"
  /\ LET answer == [kind |-> "abort", text |-> <<>>]
         result == analyzeWithAI(answer, ai.timeout)
         after == serviceAfter(result, ai.settled, ai.writes)
     IN  ai' = [ai EXCEPT !.pc = "done", !.answer = answer, !.result = result,
                          !.timer = clearTimeout(ai.timer),
                          !.settled = after.settled, !.writes = after.writes]
  /\ pc' = "idle"
  /\ UNCHANGED <<schemaFile, mtime, lastPull, lastPush, remote, now, ctx, call>>

\* The timer of the race fires, which nothing clears: an open race is
\* rejected with the timeout and generateWithTemplate writes the service
\* file; a settled race ignores it.
RaceTimerFires ==
  /\ ai.race = "armed" /\ Due(0, RaceTimeout)
  /\ ai' = [ai EXCEPT
              !.race = "fired",
              !.settled = IF @ = "" THEN "timeout" ELSE @,
              !.writes = IF ai.settled = "" THEN Append(@, "template") ELSE @]
  /\ pc' = "idle"
  /\ UNCHANGED <<schemaFile, mtime, lastPull, lastPush, remote, now, ctx, call>>

NextService ==
  \/ LocalEdit \/ GenerateWithAIStart \/ ServiceTick \/ ServiceRequestSent
  \/ ServiceProviderAnswered \/ ServiceTimerFires \/ ServiceRequestAborted
  \/ RaceTimerFires

SpecService == Init /\ [][NextService]_vars

\* ------------------------------------------------------------ mapType

\* mapType with the test for number ahead of the one for string.
mapType_NumberFirst(type) ==
  IF includes(type, TypeNumber) THEN TypeNumber
  ELSE IF includes(type, TypeString) THEN TypeString
  ELSE IF includes(type, <<"b", "o", "o", "l", "e", "a", "n">>) THEN <<"b", "o", "o", "l", "e", "a", "n">>
  ELSE IF includes(type, <<"D", "a", "t", "e">>) THEN <<"d", "a", "t", "e">>
  ELSE IF includes(type, <<"A", "r", "r", "a", "y">>) THEN TypeArray
  ELSE IF includes(type, <<"O", "b", "j", "e", "c", "t">>) THEN <<"o", "b", "j", "e", "c", "t">>
  ELSE TypeString

\* mapType
mapType(type) ==
  IF includes(type, TypeString) THEN TypeString
  ELSE IF includes(type, TypeNumber) THEN TypeNumber
  ELSE IF includes(type, <<"b", "o", "o", "l", "e", "a", "n">>) THEN <<"b", "o", "o", "l", "e", "a", "n">>
  ELSE IF includes(type, <<"D", "a", "t", "e">>) THEN <<"d", "a", "t", "e">>
  ELSE IF includes(type, <<"A", "r", "r", "a", "y">>) THEN TypeArray
  ELSE IF includes(type, <<"O", "b", "j", "e", "c", "t">>) THEN <<"o", "b", "j", "e", "c", "t">>
  ELSE TypeString

\* The pieces the type texts below are made of: the words mapType looks for,
\* the same words in the other case, a model's name, and punctuation of
\* array, generic and union types.
TypeFragments ==
  {<<"s", "t", "r", "i", "n", "g">>,
   <<"n", "u", "m", "b", "e", "r">>,
   <<"b", "o", "o", "l", "e", "a", "n">>,
   <<"D", "a", "t", "e">>,
   <<"A", "r", "r", "a", "y">>,
   <<"O", "b", "j", "e", "c", "t">>,
   <<"S", "t", "r", "i", "n", "g">>,
   <<"d", "a", "t", "e">>,
   <<"a", "r", "r", "a", "y">>,
   <<"P", "r", "o", "d", "u", "c", "t">>,
   <<"[", "]">>,
   <<"<">>,
   <<">">>,
   <<" ", "|", " ">>}

\* The most pieces in a type text.
MaxFragments == 2

RECURSIVE Concat(_)
Concat(pieces) ==
  IF pieces = <<>> THEN <<>> ELSE Head(pieces) \o Concat(Tail(pieces))

\* The texts prop.getType().getText() gives scanProject.
TypeTexts ==
  {Concat(pieces) :
     pieces \in UNION {[1..n -> TypeFragments] : n \in 0..MaxFragments}}

InitMapType ==
  /\ schemaFile = None /\ mtime = 0 /\ lastPull = None /\ lastPush = None
  /\ remote = None /\ now = 1 /\ pc = "idle" /\ ctx = NoCommand
  /\ ai = NoAnalysis
  /\ \E type \in TypeTexts :
       call = [NoCall EXCEPT !.fn = "mapType", !.args = <<type>>]

CallMapType ==
  /\ call.fn = "mapType" /\ ~call.done
  /\ call' = [call EXCEPT !.done = TRUE, !.result = <<mapType(call.args[1])>>]
  /\ UNCHANGED sync

NextMapType == CallMapType

SpecMapType == InitMapType /\ [][NextMapType]_vars

\* -------------------------------------------- getSchemaHash, the number

\* ToInt32 of a number held as <<high, low>>, its value high * 65536 + low
\* with low in 0..65535 and high any integer: the value modulo 2^32, still
\* in halves, the high half in 0..65535.
ToInt32(h) == <<h[1] % 65536, h[2]>>

\* One iteration with (hash << 5) - hash for the sum.
hashIteration_Times31(h, code) ==
  LET int == ToInt32(h)
      shiftedLow == int[2] * 32
      shiftedHigh == (int[1] * 32 + shiftedLow \div 65536) % 65536
      signedHigh == IF shiftedHigh >= 32768 THEN shiftedHigh - 65536
                    ELSE shiftedHigh
      low == (shiftedLow % 65536) - h[2] + code
  IN  <<signedHigh - h[1] + low \div 65536, low % 65536>>

\* One iteration of the loop of getSchemaHash as JavaScript computes it:
\* hash << 5 takes ToInt32 of hash, shifts and gives a signed 32-bit value;
\* the two additions are additions of numbers and do not wrap, so hash may
\* leave the 32-bit range.
hashIteration(h, code) ==
  LET int == ToInt32(h)
      shiftedLow == int[2] * 32
      shiftedHigh == (int[1] * 32 + shiftedLow \div 65536) % 65536
      signedHigh == IF shiftedHigh >= 32768 THEN shiftedHigh - 65536
                    ELSE shiftedHigh
      low == (shiftedLow % 65536) + h[2] + code
  IN  <<signedHigh + h[1] + low \div 65536, low % 65536>>

\* The loop of getSchemaHash over the characters from .. to of text, started
\* with hash h.
RECURSIVE hashLoop(_, _, _, _)
hashLoop(h, text, from, to) ==
  IF from > to THEN h
  ELSE IF from = to THEN hashIteration(h, charCodeAt[text[from]])
  ELSE LET mid == (from + to) \div 2
           first == hashLoop(h, text, from, mid)
       IN  IF first[2] \in 0..65535
           THEN hashLoop(first, text, mid + 1, to)
           ELSE first

\* The stable JSON of one of the documents a scan, an edit or the backend
\* gives.
InitHashValue ==
  /\ schemaFile = None /\ mtime = 0 /\ lastPull = None /\ lastPush = None
  /\ remote = None /\ now = 1 /\ pc = "idle" /\ ctx = NoCommand
  /\ ai = NoAnalysis
  /\ \E d \in {r \in RawDocs : "tables" \in DOMAIN r}
               \cup EditDocs \cup RemoteDocs :
       call = [NoCall EXCEPT !.fn = "hash", !.args = <<StableJson(d)>>]

\* The loop, hash & 0x7FFFFFFF on its result, and toString(36).
CallHashLoop ==
  /\ call.fn = "hash" /\ ~call.done
  /\ LET hash == hashLoop(<<0, 5381>>, call.args[1], 1, Len(call.args[1]))
         masked == (ToInt32(hash)[1] % 32768) * 65536 + hash[2]
     IN  call' = [call EXCEPT !.done = TRUE,
                              !.result = <<hash, masked, Base36(masked)>>]
  /\ UNCHANGED sync

NextHashValue == CallHashLoop

SpecHashValue == InitHashValue /\ [][NextHashValue]_vars

\* ------------------------------------------------------------- pull

\* The pull has ended with the given outcome and nothing happened since.
PullEnded(outcome) == pc = "idle" /\ ctx.op = "pull" /\ ctx.outcome = outcome

\* The step is the one in which pull receives a response with a schema.
ReceivesSchema == pc = "pull_fetch" /\ ctx'.server # None

\* C1: a response whose schema hashes differently from the local schema,
\* received while the schema file is newer than the last pull, leads to the
\* prompt without a write; and as long as pull waits for the choice (at the
\* first prompt or, after the diff, at the second) the schema file is the
\* one pull read when it started.
C1_ConflictRequiresChoice ==
  /\ [][(/\ ReceivesSchema
         /\ getSchemaHash(ctx'.server[1]) # ctx.hash
         /\ mtime > ctx.lastPullTime)
        => (/\ pc' = "pull_prompt"
            /\ schemaFile' = schemaFile /\ mtime' = mtime
            /\ lastPull' = lastPull)]_vars
  /\ [](pc \in {"pull_prompt", "pull_diff"}
        => schemaFile = ctx.schemaData /\ mtime = ctx.mtime0)

C1_Witness ==
  /\ pc = "pull_prompt"
  /\ getSchemaHash(ctx.server[1]) # ctx.hash
  /\ mtime > ctx.lastPullTime
  /\ schemaFile # ctx.server

\* C5: every pull whose request succeeded writes the last-pull record with
\* the time of its end, whichever branch it took.
C5_SuccessfulPullUpdatesLastPull ==
  [][(/\ ctx'.op = "pull"
      /\ pc # "idle" /\ pc' = "idle"
      /\ ctx'.outcome \in {"no_updates", "up_to_date", "updated",
                           "kept_local", "merged", "replaced"})
     => (lastPull' # None /\ lastPull'[1].time = now')]_vars

\* C6: a response with a schema that is neither flagged updated nor hashes
\* differently ends the pull as up to date with the schema file untouched,
\* modified locally or not; an indicated change with no local modification
\* puts the server's tables, version and metadata in the schema file without
\* a prompt.
C6_UpToDateAndOverwrite ==
  [][ReceivesSchema =>
       LET hasChanges == getSchemaHash(ctx'.server[1]) # ctx.hash
           hasLocalMods == mtime > ctx.lastPullTime
           server == ctx'.server[1]
       IN  /\ (~hasChanges /\ ~ctx'.isUpdated)
                => (/\ pc' = "idle" /\ ctx'.outcome = "up_to_date"
                    /\ schemaFile' = schemaFile /\ mtime' = mtime)
           /\ ((hasChanges \/ ctx'.isUpdated) /\ ~hasLocalMods)
                => (/\ pc' = "idle" /\ ctx'.outcome = "updated"
                    /\ ctx'.asked = 0
                    /\ schemaFile' # None
                    /\ schemaFile'[1].tables = server.tables
                    /\ schemaFile'[1].version = server.version
                    /\ (server.metadata # None
                          => schemaFile'[1].metadata = server.metadata)
                    /\ mtime' = now)]_vars

\* Up to date although the file was modified since the last pull.
C6_Witness ==
  /\ PullEnded("up_to_date")
  /\ ctx.mtime0 > ctx.lastPullTime
  /\ schemaFile = ctx.schemaData

\* C7: after keep-local the schema file is the one pull read when it started,
\* content and modification time; after adopt-server its tables and version
\* are the server's, and its metadata too when the server sent one.
C7_KeepLocalAdoptServer ==
  /\ PullEnded("kept_local")
       => schemaFile = ctx.schemaData /\ mtime = ctx.mtime0
  /\ PullEnded("replaced")
       => /\ schemaFile # None
          /\ schemaFile[1].tables = ctx.server[1].tables
          /\ schemaFile[1].version = ctx.server[1].version
          /\ (ctx.server[1].metadata # None
                => schemaFile[1].metadata = ctx.server[1].metadata)

\* keep-local chosen where the server's tables differ from the local ones.
C7_Witness ==
  /\ PullEnded("kept_local")
  /\ ctx.server[1].tables # ctx.schemaData[1].tables
  /\ ctx.asked = 1

\* C9: a pull that wrote the schema file (overwrite, adopt-server, merge) for
\* a server schema without a metadata block left the file's metadata as it
\* was: the same block when there was one, the empty block updateSchemaFile
\* reads from a file without one otherwise, the same project either way.
C9_WritePreservesMetadata ==
  (/\ pc = "idle" /\ ctx.op = "pull"
   /\ ctx.outcome \in {"updated", "merged", "replaced"}
   /\ ctx.server[1].metadata = None)
  => /\ schemaFile # None
     /\ ctx.schemaData[1].metadata # None
          => schemaFile[1].metadata = ctx.schemaData[1].metadata
     /\ ctx.schemaData[1].metadata = None
          => schemaFile[1].metadata = Some(Metadata(None))
     /\ getProjectInfos(schemaFile) = getProjectInfos(ctx.schemaData)

\* The server's schema without metadata written over a file with a project.
C9_Witness ==
  /\ PullEnded("updated")
  /\ ctx.server[1].metadata = None
  /\ ctx.schemaData[1].metadata = Some(Metadata(Some(ProjectOne)))
  /\ schemaFile[1].tables = ctx.server[1].tables

\* ------------------------------------------------------------- push

\* The step starts a push (and may end it): the other steps taken between
\* commands leave the command's record alone or clear it.
StartsPush == pc = "idle" /\ ctx'.op = "push" /\ ctx' # ctx

\* The push has ended and nothing happened since.
PushEnded == pc = "idle" /\ ctx.op = "push"

\* C2: a push without force of a schema whose hash is the recorded last-push
\* hash ends at once as unchanged: no request is sent or left in flight, and
\* the last-push record and the schema file stay as they are.
C2_UnchangedPushSendsNothing ==
  [][(/\ StartsPush /\ ~ctx'.force
      /\ schemaFile # None /\ lastPush # None
      /\ lastPush[1].hash = getSchemaHash(schemaFile[1]))
     => (/\ pc' = "idle" /\ ctx'.outcome = "unchanged" /\ ~ctx'.sent
         /\ lastPush' = lastPush
         /\ schemaFile' = schemaFile /\ mtime' = mtime)]_vars

C2_Witness ==
  /\ PushEnded /\ ctx.outcome = "unchanged" /\ ~ctx.force /\ ~ctx.sent
  /\ lastPush # None /\ lastPush[1].hash = getSchemaHash(schemaFile[1])

\* C3, as claimed: of two pushes without force in a row of the same schema,
\* at most one sends a request.
C3_AtMostOneRequest ==
  (PushEnded /\ ctx.prevValid) => ~(ctx.prevSent /\ ctx.sent)

\* C3, amended: of two pushes without force in a row of the same schema, the
\* second sends no request when the first one's transmission succeeded, so at
\* most one transmission succeeds; after a failed one the second sends again.
C3_AtMostOneSuccessfulTransmission ==
  (pc \in {"idle", "push_send"} /\ ctx.op = "push" /\ ctx.prevValid /\ ctx.prevOk)
  => (~ctx.sent /\ pc = "idle" /\ ctx.outcome = "unchanged")

C3_Witness ==
  /\ PushEnded /\ ctx.prevValid /\ ctx.prevOk /\ ctx.prevSent
  /\ ctx.outcome = "unchanged"

\* C4: the last-push record changes only in the step that receives the
\* backend's success, to the time of that step and the hash and project id
\* of the push; a push that ends at authentication, in a timeout, a 401 or
\* another error leaves the record as it was.
C4_LastPushOnlyAfterSuccess ==
  /\ [][lastPush' # lastPush
        => (/\ pc = "push_send" /\ ctx'.outcome = "pushed"
            /\ lastPush' = Some([time |-> now, hash |-> ctx.hash,
                                 id |-> ctx.projectId]))]_vars
  /\ [][(ctx'.op = "push"
         /\ ctx'.outcome \in {"exit", "timeout", "unauthorized", "server_error"})
        => lastPush' = lastPush]_vars

\* A push of a changed schema has failed and the older record is still there.
C4_Witness ==
  /\ PushEnded /\ ctx.outcome \in {"timeout", "unauthorized", "server_error"}
  /\ lastPush # None /\ lastPush[1].hash # ctx.hash

\* ------------------------------------------------------ mergeSchemas

\* mergeSchemas has returned.
Merged == call.fn = "mergeSchemas" /\ call.done

\* C8: the merged tables are named by the union of the two sides' table
\* names; a table the server has is the server's table as a whole, so a
\* column that only the local table of that name has is gone; a table only
\* the local side has is the local one.
C8_MergeIsPerTable ==
  Merged =>
    LET localSchema == call.args[1]
        serverSchema == call.args[2]
        merged == call.result[1]
    IN  /\ DOMAIN merged.tables
             = DOMAIN localSchema.tables \cup DOMAIN serverSchema.tables
        /\ \A k \in DOMAIN merged.tables :
             /\ k \in DOMAIN serverSchema.tables
                  => merged.tables[k] = serverSchema.tables[k]
             /\ k \notin DOMAIN serverSchema.tables
                  => merged.tables[k] = localSchema.tables[k]

\* users on both sides with age in the local one only, orders local only.
C8_Witness ==
  /\ Merged
  /\ DOMAIN call.args[1].tables = {Users, Orders}
  /\ DOMAIN call.args[2].tables = {Users}
  /\ call.args[1].tables[Users] = IdAndAge
  /\ call.args[2].tables[Users] = IdOnly
  /\ ColAge \notin DOMAIN call.result[1].tables[Users]
  /\ call.result[1].tables[Orders] = call.args[1].tables[Orders]

\* ------------------------------------------------- project identity

\* The project the schema file names, if any.
identity(file) ==
  IF file # None /\ file[1].metadata # None THEN file[1].metadata[1].project
  ELSE None

\* C10: once a project is configured, no step of scan, push or pull changes
\* or removes it in the schema file.
C10_IdentityOnlyByConfiguration ==
  [][(ctx'.op \in {"scan", "push", "pull"} /\ identity(schemaFile) # None)
     => identity(schemaFile') = identity(schemaFile)]_vars

\* ------------------------------------------------------ pull, failing

\* The answers of the backend that are failures of the request.
RequestFailures == RequestOutcomes \ {"ok"}

\* C11: a pull whose request ends in a timeout, a 401 or another error
\* response ends with that error, and the step leaves the schema file and
\* the last-pull record as they were.
C11_FailedPullChangesNothing ==
  [][(pc = "pull_fetch" /\ ctx'.request \in RequestFailures)
     => (/\ pc' = "idle" /\ ctx'.outcome = ctx'.request
         /\ schemaFile' = schemaFile /\ mtime' = mtime
         /\ lastPull' = lastPull)]_vars

\* A 401, with a changed schema on the backend and an older
\* last-pull record kept.
C11_Witness ==
  /\ pc = "idle" /\ ctx.op = "pull" /\ ctx.outcome = "unauthorized"
  /\ remote # None /\ getSchemaHash(remote[1]) # ctx.hash
  /\ lastPull # None /\ lastPull[1].time < now
  /\ schemaFile = ctx.schemaData

\* ----------------------------------------------- sanitize and filter

\* sanitizeSchema has returned for a document with tables.
Sanitized ==
  call.fn = "sanitizeSchema" /\ call.done /\ "tables" \in DOMAIN call.args[1]

\* The type of a column is of the Column Type Vocabulary: a string that is a
\* vocabulary type (in any case, a parameter after ":" or "[" allowed) or an
\* enum pattern, or a descriptor whose type is a vocabulary type.
InVocabulary(column) ==
  \/ column.kind = "string" /\ isValidType(column.text)
  \/ column.kind = "object" /\ column.text \in VALID_COLUMN_TYPES

\* C12: after sanitizeSchema every column of every table has a type of the
\* Column Type Vocabulary, whatever the column's value was.
C12_SanitizedTypesInVocabulary ==
  Sanitized =>
    \A t \in DOMAIN call.result[1].tables :
      \A c \in DOMAIN call.result[1].tables[t] :
        InVocabulary(call.result[1].tables[t][c])

\* C13: after sanitizeSchema a column whose value was an array is the
\* string "array".
C13_ArrayBecomesArray ==
  Sanitized =>
    \A t \in DOMAIN call.args[1].tables :
      \A c \in DOMAIN call.args[1].tables[t] :
        call.args[1].tables[t][c].kind = "array"
          => call.result[1].tables[t][c] = StrCol(TypeArray)

\* filterSchema has returned for the result of sanitizeSchema.
FilteredSanitized ==
  call.fn = "filterSchema" /\ call.done /\ call.after = "sanitizeSchema"

\* C14: filterSchema(sanitizeSchema(D)) holds no table whose lowercased name
\* is an entry of IGNORED_COMPONENTS and no table without columns.
C14_NoIgnoredNoEmptyTable ==
  FilteredSanitized =>
    \A t \in DOMAIN call.result[1].tables :
      /\ toLowerCase(t) \notin IGNORED_COMPONENTS
      /\ DOMAIN call.result[1].tables[t] # {}

\* Calendar with a column and users without one went in, neither came out.
C14_Witness ==
  /\ FilteredSanitized
  /\ {Users, Calendar} \subseteq DOMAIN call.args[1].tables
  /\ DOMAIN call.args[1].tables[Calendar] # {}
  /\ DOMAIN call.args[1].tables[Users] = {}
  /\ DOMAIN call.result[1].tables = {}

\* filterSchema has returned.
Filtered == call.fn = "filterSchema" /\ call.done

\* The tables of a document, none when it has no tables field.
TablesOf(schema) == IF "tables" \in DOMAIN schema THEN schema.tables ELSE <<>>

\* filterSchema took nothing but tables away: the tables that have a column
\* and neither an ignored nor a UI component name are in the output as they
\* were, and the output has no other table than the input's.
OnlyRemovesTables(input, output) ==
  /\ \A t \in DOMAIN TablesOf(input) :
       (/\ DOMAIN TablesOf(input)[t] # {}
        /\ toLowerCase(t) \notin IGNORED_COMPONENTS
        /\ ~isUIComponentTable(toLowerCase(t)))
       => (t \in DOMAIN output.tables /\ output.tables[t] = TablesOf(input)[t])
  /\ DOMAIN output.tables \subseteq DOMAIN TablesOf(input)

AnalysisEnds == ai.pc \in {"request", "aborted"} /\ ai'.pc = "done"

\* C16: when the provider's text is no JSON (plain words, JSON cut off, no
\* text at all), analyzeWithAI throws, returning no schema, and scan ends
\* without a write to the schema file.
C16_ParseErrorWritesNothing ==
  [][(/\ AnalysisEnds /\ ai'.answer.kind = "text"
      /\ ai'.answer.text \in {NotJson, CutJson, <<>>})
     => (/\ ~ai'.result.ok /\ ai'.result.schema = <<>>
         /\ ai'.result.error = "analysis_failed"
         /\ ~ai'.wrote
         /\ schemaFile' = schemaFile /\ mtime' = mtime)]_vars

\* "not json" came while a schema file was there; the file is as before.
C16_Witness ==
  /\ ai.pc = "done" /\ ai.answer = [kind |-> "text", text |-> NotJson]
  /\ ~ai.result.ok /\ schemaFile # None /\ mtime < now

\* C17: once the timer has fired the request is aborted and the call ends,
\* without a schema, in the timeout error that names the timeout in
\* seconds; on every way out (schema returned, parse error, provider error,
\* timeout) the timer is no longer armed, and a second clearTimeout leaves
\* it released.
C17_TimeoutBoundsAnalysis ==
  /\ [](ai.timer = "fired" => ai.aborted /\ ai.pc \in {"aborted", "done"})
  /\ [][(ai.aborted /\ AnalysisEnds)
        => (/\ ai'.result = Failure("timed_out", ai.timeout \div 1000)
            /\ ~ai'.wrote /\ schemaFile' = schemaFile)]_vars
  /\ [](ai.pc = "done"
        => (/\ ai.timer \in {"cleared", "fired"}
            /\ ai.cleared >= 1
            /\ ai.timer = "fired" <=> ai.result.error = "timed_out"
            /\ ai.cleared = 2 => ai.timer = "cleared"))

\* A call with a timeout of 30 s that timed out: the timer fired, the
\* finally block passed.
C17_Witness ==
  /\ ai.pc = "done" /\ ai.timeout = 30000 /\ ai.timer = "fired"
  /\ ai.result = Failure("timed_out", 30) /\ ai.cleared = 1

\* ------------------------------------------------------ file selector

\* filterProjectFiles has returned.
Selected == call.fn = "filterProjectFiles" /\ call.done

\* The names of the files in a sequence of paths.
NamesOf(paths) == {basename(paths[i]) : i \in DOMAIN paths}

\* C18: no selected file is the component Button.tsx or the utility file
\* utils.ts, and of exactly a.model.ts, Button.tsx and utils.ts the one
\* selected file is a.model.ts.
C18_SelectsOnlyBusinessLogic ==
  Selected =>
    LET found == {call.args[1][i].path : i \in DOMAIN call.args[1]}
        selectedFiles == call.result[1].selectedFiles
    IN  /\ NamesOf(selectedFiles) \cap {ButtonTsx, UtilsTs} = {}
        /\ {basename(p) : p \in found} = {AModelTs, ButtonTsx, UtilsTs}
             => /\ Len(selectedFiles) = 1
                /\ basename(selectedFiles[1]) = AModelTs

\* Of a.model.ts, Button.tsx and utils.ts in the scanned directory the
\* selected files are a.model.ts and, after it, Button.tsx.
C18_Witness ==
  /\ Selected
  /\ {call.args[1][i].path : i \in DOMAIN call.args[1]}
       = {AModelTs, ButtonTsx, UtilsTs}
  /\ call.args[2] = AIFilterConfig
  /\ call.result[1].selectedFiles = <<AModelTs, ButtonTsx>>

\* ------------------------------------------------------ getSchemaHash

Hashed == call.fn = "getSchemaHash" /\ call.done

\* Two parsed values have the same content: the same leaf, or objects with
\* the same keys holding the same content, whatever the order of the keys.
RECURSIVE SameContent(_, _)
SameContent(a, b) ==
  /\ a.isObject = b.isObject
  /\ IF a.isObject
     THEN LET keysA == {ObjectKeys(a)[i] : i \in DOMAIN a.members}
              keysB == {ObjectKeys(b)[i] : i \in DOMAIN b.members}
          IN  /\ keysA = keysB
              /\ \A k \in keysA : SameContent(Member(a, k), Member(b, k))
     ELSE a.json = b.json

\* C19: getSchemaHash is a function of the document's content and does not
\* depend on the order of object keys at any depth: hashing a document twice
\* gives the same value, and two documents that differ only in the order of
\* their keys have the same hash.
C19_HashIgnoresKeyOrder ==
  Hashed =>
    /\ call.result[1] = call.result[2]
    /\ SameContent(call.args[1], call.args[2])
         => call.result[1] = call.result[3]

\* Two documents of the same content whose keys come in another order at the
\* top, among the tables and inside a table have been hashed.
C19_Witness ==
  /\ Hashed
  /\ SameContent(call.args[1], call.args[2])
  /\ ObjectKeys(call.args[1]) # ObjectKeys(call.args[2])
  /\ LET kTables == <<"t", "a", "b", "l", "e", "s">>
         tables1 == Member(call.args[1], kTables)
         tables2 == Member(call.args[2], kTables)
     IN  /\ ObjectKeys(tables1) # ObjectKeys(tables2)
         /\ ObjectKeys(Member(tables1, Users))
              # ObjectKeys(Member(tables2, Users))
  /\ call.result[1] = call.result[3]

\* ------------------------------------------------- pull, resolved hash

\* C20: the hash in the last-pull record at the end of a pull is the hash of
\* the schema document that is in the schema file when the pull ends: the
\* server's after overwrite or adopt-server, the local one after keep-local,
\* the merged one after merge.
C20_LastPullHashIsResolvedHash ==
  (/\ pc = "idle" /\ ctx.op = "pull"
   /\ ctx.outcome \in {"updated", "replaced", "kept_local", "merged"})
  => /\ lastPull # None /\ schemaFile # None
     /\ lastPull[1].hash = getSchemaHash(schemaFile[1])

\* After keep-local the record holds the hash of the server's schema while
\* the file holds the local one, which hashes differently.
C20_Witness ==
  /\ PullEnded("kept_local")
  /\ schemaFile = ctx.schemaData
  /\ lastPull # None
  /\ lastPull[1].hash = getSchemaHash(ctx.server[1])
  /\ lastPull[1].hash # getSchemaHash(schemaFile[1])

\* ------------------------------------------------- pull after a pull

\* The step is the one in which a pull that follows a pull ended as prev,
\* with no edit of the file and no change on the backend in between,
\* receives a response with a schema.
ReceivesSchemaAfter(prev) == ReceivesSchema /\ ctx.prev = prev

\* C21: after a conflict resolved with keep-local, with the schema file and
\* the backend's schema unchanged since, the next pull does not write the
\* schema file without asking for a choice again.
C21_KeepLocalIsNotUndone ==
  [][ReceivesSchemaAfter("kept_local")
       => (schemaFile' = schemaFile \/ pc' = "pull_prompt")]_vars

\* The pull after keep-local has written the server's tables over the local
\* ones without a prompt.
C21_Witness ==
  /\ PullEnded("updated") /\ ctx.prev = "kept_local"
  /\ ctx.asked = 0
  /\ schemaFile # ctx.schemaData
  /\ schemaFile[1].tables = ctx.server[1].tables
  /\ ctx.schemaData[1].tables # ctx.server[1].tables

\* C22: after a pull that wrote the server's schema over the schema file, a
\* second pull against the same server schema, not flagged updated and with
\* no edit in between, finds equal hashes, ends as up to date and leaves the
\* schema file as it is, with or without a metadata block in the server's
\* schema.
C22_PullConverges ==
  [][(ReceivesSchemaAfter("updated") /\ ~ctx'.isUpdated)
       => (/\ getSchemaHash(ctx'.server[1]) = ctx.hash
           /\ pc' = "idle" /\ ctx'.outcome = "up_to_date"
           /\ schemaFile' = schemaFile /\ mtime' = mtime)]_vars

\* The second pull, not flagged updated, has written the schema file again:
\* the server's schema has no metadata block, the file written by the first
\* pull has one.
C22_Witness ==
  /\ PullEnded("updated") /\ ctx.prev = "updated" /\ ~ctx.isUpdated
  /\ ctx.server[1].metadata = None
  /\ ctx.schemaData[1].metadata # None
  /\ ctx.schemaData[1].tables = ctx.server[1].tables
  /\ getSchemaHash(ctx.server[1]) # ctx.hash

\* The outcomes of a pull whose response carried a schema.
SchemaOutcomes == {"up_to_date", "updated", "kept_local", "merged", "replaced"}

\* C23: within a pull the schema file is written before the last-pull
\* record, so at the end of a pull whose response carried a schema the
\* recorded time is not earlier than the file's modification time; and the
\* pull that follows it with no edit in between does not come to the
\* conflict prompt.
C23_RecordNotOlderThanFile ==
  /\ [](\A outcome \in SchemaOutcomes :
          PullEnded(outcome) => (lastPull # None /\ lastPull[1].time >= mtime))
  /\ [][(pc = "pull_fetch" /\ ctx.prev \in SchemaOutcomes)
          => pc' # "pull_prompt"]_vars

\* A pull that follows a merge, the clock advanced in between, has received
\* a schema that hashes differently and has written it without a prompt.
C23_Witness ==
  /\ PullEnded("updated") /\ ctx.prev = "merged"
  /\ getSchemaHash(ctx.server[1]) # ctx.hash
  /\ ctx.lastPullTime = ctx.mtime0 /\ ctx.lastPullTime < now
  /\ ctx.asked = 0

\* ------------------------------------------------------- first pull

\* The branch of a pull that found no readable last-pull record is known.
FirstPullDone ==
  /\ call.fn = "processServerResponse" /\ call.done
  /\ call.args[2].kind \in {"absent", "unparsable"}

\* C24: without a last-pull record, or with one that cannot be read, the
\* last-pull time is the epoch and hasLocalMods is true for any existing
\* schema file: every indicated change of the remote leads to the conflict
\* branch, none to the overwrite without a prompt.
C24_FirstPullAsks ==
  FirstPullDone =>
    LET hasChanges == getSchemaHash(call.args[4]) # getSchemaHash(call.args[1])
    IN  /\ call.result[2]
        /\ call.result[1] # "updated"
        /\ (call.args[5] \/ hasChanges) => call.result[1] = "conflict"

\* A cut last-pull file, a response not flagged updated whose schema hashes
\* differently: the conflict branch.
C24_Witness ==
  /\ FirstPullDone
  /\ call.args[2].kind = "unparsable"
  /\ ~call.args[5]
  /\ getSchemaHash(call.args[4]) # getSchemaHash(call.args[1])
  /\ call.result[1] = "conflict"

\* ----------------------------------------- commands without a project

\* The step starts a push or a pull on a schema file that names no project.
StartsWithoutProject ==
  /\ pc = "idle" /\ ctx' # ctx /\ ctx'.op \in {"push", "pull"}
  /\ schemaFile # None
  /\ getProjectInfos(schemaFile) = Project(<<>>, <<>>)

\* C25: a push or a pull on a schema document without a project identity
\* stops with the failure to get the project information: it sends no
\* request and writes no sync state.
C25_NoProjectNoRequest ==
  [][StartsWithoutProject
       => (/\ pc' = "idle" /\ ~ctx'.sent
           /\ lastPull' = lastPull /\ lastPush' = lastPush
           /\ schemaFile' = schemaFile)]_vars

\* A pull on a schema file without metadata has sent its request, for the
\* project id "", and has written the schema file and the last-pull record.
C25_Witness ==
  /\ PullEnded("updated")
  /\ ctx.schemaData # None /\ ctx.schemaData[1].metadata = None
  /\ ctx.projectId = <<>> /\ ctx.sent
  /\ lastPull # None /\ lastPull[1].time = now

\* ------------------------------------------------ conflict resolution

\* The outcome resolveConflict gives for a choice.
Resolved(action) ==
  CASE action = "server" -> "replaced"
    [] action = "local" -> "kept_local"
    [] action = "merge" -> "merged"

\* C26: the resolution of a conflict asks at most two questions and then
\* ends: after inspect-diff nothing is written while the diff is shown and
\* one more choice among adopt-server, keep-local and merge follows, which
\* ends the pull; a pull waiting for a choice takes no step of its own, and
\* one that went through the conflict ended on the choice that was
\* returned.
C26_AtMostTwoQuestions ==
  /\ [](ctx.op = "pull" =>
          /\ Len(ctx.answers) <= 2 /\ ctx.asked = Len(ctx.answers)
          /\ pc = "pull_prompt" => ctx.answers = <<>>
          /\ pc = "pull_diff"
               => /\ ctx.answers = <<"diff">>
                  /\ schemaFile = ctx.schemaData /\ mtime = ctx.mtime0
                  /\ readLastPullTime(lastPull) = ctx.lastPullTime
          /\ (pc = "idle" /\ ctx.answers # <<>>)
               => /\ ctx.answers[Len(ctx.answers)] \in {"server", "local", "merge"}
                  /\ ctx.outcome = Resolved(ctx.answers[Len(ctx.answers)])
                  /\ Len(ctx.answers) = 2 => ctx.answers[1] = "diff"
          /\ (pc = "idle" /\ ctx.outcome \in {"replaced", "kept_local", "merged"})
               => ctx.answers # <<>>)
  /\ [][(pc \in {"pull_prompt", "pull_diff"} /\ ctx'.answers = ctx.answers)
          => (pc' = pc /\ UNCHANGED <<schemaFile, mtime, lastPull, ctx>>)]_vars
  /\ [][pc = "pull_diff" /\ ctx'.answers # ctx.answers => pc' = "idle"]_vars

\* The diff was inspected, then merge was chosen, and the pull has ended
\* with the merged schema written.
C26_Witness ==
  /\ PullEnded("merged")
  /\ ctx.answers = <<"diff", "merge">>
  /\ schemaFile # ctx.schemaData

\* ------------------------------------------------ file selector, limits

\* The candidates of the call, as filterProjectFiles sorts them.
Candidates ==
  LET config == call.args[2]
      candidate(file) ==
        isBusinessLogicFile(file.path) /\ file.size <= config.maxFileSize
  IN  sortByScore(SelectSeq(call.args[1], candidate))

\* The sum of the post-reduction lengths of the first n candidates.
RECURSIVE ReducedSum(_, _)
ReducedSum(files, n) ==
  IF n = 0 THEN 0 ELSE ReducedSum(files, n - 1) + files[n].reduced

\* C27: selectedFiles is the longest prefix of the candidates, sorted by
\* descending score, that has at most maxFiles files and at most
\* maxTotalSize of post-reduction content: the selection stops at the first
\* file that would overflow, whatever follows it, and totalSize is the sum
\* of the lengths included.
C27_LongestPrefixWithinLimits ==
  Selected =>
    LET config == call.args[2]
        files == Candidates
        n == Len(call.result[1].selectedFiles)
    IN  /\ n <= Len(files) /\ n <= config.maxFiles
        /\ \A i \in 1..(Len(files) - 1) :
             scoreFileImportance(files[i]) >= scoreFileImportance(files[i + 1])
        /\ call.result[1].selectedFiles = [i \in 1..n |-> files[i].path]
        /\ call.result[1].totalSize = ReducedSum(files, n)
        /\ ReducedSum(files, n) <= config.maxTotalSize
        /\ n < Len(files)
             => \/ n = config.maxFiles
                \/ ReducedSum(files, n + 1) > config.maxTotalSize

\* Of three candidates the first is selected, the second would overflow,
\* and the third, which would fit, is left out.
C27_Witness ==
  /\ Selected
  /\ Len(Candidates) = 3
  /\ Len(call.result[1].selectedFiles) = 1
  /\ call.args[2].maxFiles > 1
  /\ call.result[1].totalSize + Candidates[2].reduced > call.args[2].maxTotalSize
  /\ call.result[1].totalSize + Candidates[3].reduced <= call.args[2].maxTotalSize

\* ------------------------------------------------------ generateWithAI

\* C28: once the timeout of 45 seconds has won the race and the template
\* has written the service file, the file stays the template's: the pending
\* AI generation does not write it afterwards, and one generator alone has
\* written the file.
C28_TemplateFallbackIsFinal ==
  ai.settled = "timeout" => ai.writes = <<"template">>

\* The API key took more than 15 seconds, the race timed out and the
\* template was written; then the provider's answer came within its own 30
\* seconds and the service file was written again, with the AI's code.
C28_Witness ==
  /\ ai.settled = "timeout" /\ ai.race = "fired"
  /\ ai.pc = "done" /\ ai.result.ok
  /\ ai.armedAt * Quantum > RaceTimeout - ServiceTimeout
  /\ ai.writes = <<"template", "ai">>

\* ------------------------------------------------------------ mapType

\* The rules of the type mapping in their order: the text looked for and the
\* type given.
TypeRules ==
  <<[marker |-> <<"s", "t", "r", "i", "n", "g">>, type |-> <<"s", "t", "r", "i", "n", "g">>],
    [marker |-> <<"n", "u", "m", "b", "e", "r">>, type |-> <<"n", "u", "m", "b", "e", "r">>],
    [marker |-> <<"b", "o", "o", "l", "e", "a", "n">>, type |-> <<"b", "o", "o", "l", "e", "a", "n">>],
    [marker |-> <<"D", "a", "t", "e">>, type |-> <<"d", "a", "t", "e">>],
    [marker |-> <<"A", "r", "r", "a", "y">>, type |-> <<"a", "r", "r", "a", "y">>],
    [marker |-> <<"O", "b", "j", "e", "c", "t">>, type |-> <<"o", "b", "j", "e", "c", "t">>]>>

\* C29: mapType gives the type of the first rule, in the order string,
\* number, boolean, Date, Array, Object, whose text the type text contains,
\* and string when none does; the result is one of the six types, and an
\* earlier rule wins over a later one that matches too.
C29_FirstMatchingRule ==
  (call.fn = "mapType" /\ call.done) =>
    LET hits == {i \in DOMAIN TypeRules :
                   includes(call.args[1], TypeRules[i].marker)}
        first == CHOOSE i \in hits : \A j \in hits : i <= j
    IN  /\ call.result[1] \in {TypeRules[i].type : i \in DOMAIN TypeRules}
        /\ hits = {} => call.result[1] = <<"s", "t", "r", "i", "n", "g">>
        /\ hits # {} => call.result[1] = TypeRules[first].type

\* A union of number and string: both rules match, string is the result.
C29_Witness ==
  /\ call.fn = "mapType" /\ call.done
  /\ call.args[1] = <<"n", "u", "m", "b", "e", "r", "s", "t", "r", "i", "n", "g">>
  /\ call.result[1] = <<"s", "t", "r", "i", "n", "g">>

\* -------------------------------------------- getSchemaHash, the number

\* The number a base-36 text stands for.
RECURSIVE FromBase36(_)
FromBase36(text) ==
  IF text = <<>> THEN 0
  ELSE LET c == text[Len(text)]
           digit == IF InSeq(Digits, c) THEN IndexOf(Digits, c) - 1
                    ELSE IndexOf(LowerCase, c) + 9
       IN  FromBase36(SubSeq(text, 1, Len(text) - 1)) * 36 + digit

\* C30: getSchemaHash returns the base-36 text of an integer from 0 to
\* 2^31 - 1: the rolling hash h := h * 33 + charCode, seeded with 5381, taken
\* over the stable JSON with 32-bit wrap-around and masked with 0x7FFFFFFF.
C30_HashIsMaskedRollingHash ==
  (call.fn = "hash" /\ call.done) =>
    /\ call.result[2] \in 0..2147483647
    /\ call.result[2] = MaskedHash(call.args[1])
    /\ call.result[3] # <<>>
    /\ \A i \in DOMAIN call.result[3] :
         InSeq(Digits, call.result[3][i]) \/ InSeq(LowerCase, call.result[3][i])
    /\ FromBase36(call.result[3]) = call.result[2]

\* The loop's value has left the 32-bit range, below zero or above 2^32,
\* and the masked value is the wrapped hash all the same.
C30_Witness ==
  /\ call.fn = "hash" /\ call.done
  /\ call.result[1][1] \notin 0..65535
  /\ call.result[2] = MaskedHash(call.args[1])
  /\ call.result[2] >= 36 * 36 * 36 * 36 * 36

====
